---------------------------- MODULE Spec2Model ----------------------------
(***************************************************************************)
(* A model of the rain-or-not weather core:                                *)
(*   - services/weatherService.ts : the time-aligned cache                 *)
(*     (getNext5MinMark, getCachedData, setCachedData), the proximity      *)
(*     filter filterNearbyStations and the staged acquisition              *)
(*     fetchWeatherData;                                                   *)
(*   - utils/threadedDistanceCalculator.ts : the worker pool               *)
(*     ThreadedDistanceCalculator (initialize, sendToWorker, terminate)    *)
(*     and its two ways of computing distances;                            *)
(*   - utils/location.ts : calculateRainPrediction.                        *)
(*                                                                         *)
(* Units.  Time is epoch milliseconds, as Date.now() gives it.  Rainfall   *)
(* is in tenths of a millimetre so that readings below the 1 mm threshold  *)
(* other than 0 exist.  Latitudes are in kilometres of arc along one       *)
(* meridian, where the haversine distance is the absolute difference.      *)
(***************************************************************************)
EXTENDS Integers, Sequences, FiniteSets, TLC

VARIABLES
    now,        \* Date.now(): the wall clock, epoch ms
    ticks,      \* how many times the clock has advanced (bounds the run)
    storage,    \* localStorage: key -> stored item
    call,       \* one record per fetchWeatherData invocation slot
    tIn,        \* clock-function harness: the instant getNext5MinMark runs at
    tOut,       \* clock-function harness: what getNext5MinMark returned
    eng,        \* ThreadedDistanceCalculator: its fields
    req,        \* per request of sendToWorker: its promise, timer and message
    calc,       \* per calculateDistancesParallel invocation: where it stands
    arg,        \* pure-function harness: the arguments of the function applied
    out         \* pure-function harness: what the function returned

vars == <<now, ticks, storage, call, tIn, tOut, eng, req, calc, arg, out>>

weatherVars == <<now, ticks, storage, call>>
clockVars == <<tIn, tOut>>
engineVars == <<eng, req, calc>>
pureVars == <<arg, out>>

-----------------------------------------------------------------------------
(* Bounds of the model.                                                    *)

MaxTicks == 3

\* the invocation slots of fetchWeatherData: two, for two overlapping calls
Calls == {1, 2}
\* the slot a caller that awaits each call before the next one uses
SerialCalls == {1}

-----------------------------------------------------------------------------
(* Wall-clock arithmetic: Date#getMinutes, setSeconds(0),                  *)
(* setMilliseconds(0).  Zone offsets are whole multiples of 15 minutes, so *)
(* the local minute and the UTC minute agree modulo 5.                     *)

MsPerSecond == 1000
SecondsPerMinute == 60
MinutesPerHour == 60
MsPerMinute == SecondsPerMinute * MsPerSecond

getMinutes(t) == (t \div MsPerMinute) % MinutesPerHour
\* expiry.setSeconds(0); expiry.setMilliseconds(0)
TruncateToMinute(t) == t - (t % MsPerMinute)

CacheAlignMinutes == 5

getNext5MinMark_round_up(t) ==
    LET minutes == getMinutes(t)
        minutesToAdd == (CacheAlignMinutes - (minutes % CacheAlignMinutes)) % CacheAlignMinutes
    IN  TruncateToMinute(t + minutesToAdd * SecondsPerMinute * MsPerSecond)

\* getNext5MinMark, with `now` made a parameter
getNext5MinMark(t) ==
    LET minutes == getMinutes(t)
        minutesToAdd == CacheAlignMinutes - (minutes % CacheAlignMinutes)
    IN  TruncateToMinute(t + minutesToAdd * SecondsPerMinute * MsPerSecond)


-----------------------------------------------------------------------------
(* JavaScript values.                                                      *)

\* the value `undefined`
Undefined == [undef |-> TRUE]
\* the value `null` (a response's data, a nulled response variable)
Null == [null |-> TRUE]

\* Boolean(x) for the values the model holds in optional positions
Truthy(x) == x # Undefined /\ x # Null

\* obj.k, where reading a property the object lacks gives undefined
Prop(obj, k) == IF k \in DOMAIN obj THEN obj[k] ELSE Undefined

\* a Record<string, T> with no keys
EmptyMap == [k \in {} |-> 0]

\* map[k] = v
Put(m, k, v) == [x \in (DOMAIN m) \cup {k} |-> IF x = k THEN v ELSE m[x]]

\* the keys of `m` that lie in `keep`, with their values
Restrict(m, keep) == [k \in (DOMAIN m) \cap keep |-> m[k]]

\* Array.prototype.filter: the elements of `s` at the indexes in `keep`,
\* in their order in `s`
RECURSIVE SelectSeq_(_, _, _)
SelectSeq_(s, keep, i) ==
    IF i > Len(s) THEN << >>
    ELSE IF i \in keep THEN <<s[i]>> \o SelectSeq_(s, keep, i + 1)
         ELSE SelectSeq_(s, keep, i + 1)

FilterIdx(s, keep) == SelectSeq_(s, keep, 1)

\* Array.prototype.slice(0, n)
Slice0(s, n) == IF n <= 0 THEN << >>
                ELSE IF Len(s) <= n THEN s ELSE SubSeq(s, 1, n)

-----------------------------------------------------------------------------
(* JSON.stringify and JSON.parse on the cached item.  stringify omits a    *)
(* property whose value is undefined; parse gives back objects that lack   *)
(* it.  Every number the model stores is finite, so numbers print as       *)
(* themselves.                                                             *)

\* of a station's properties only labelLocation is ever undefined
StringifyStation(st) ==
    IF "labelLocation" \in DOMAIN st /\ st.labelLocation = Undefined
    THEN [k \in (DOMAIN st) \ {"labelLocation"} |-> st[k]]
    ELSE st

StringifySnapshot(d) ==
    [d EXCEPT !.stations = [i \in DOMAIN d.stations |-> StringifyStation(d.stations[i])]]

\* JSON.stringify({expiry, data})
JSONstringify(item) ==
    [kind |-> "json", expiry |-> item.expiry, data |-> StringifySnapshot(item.data)]

\* JSON.parse of a stored text: the text's own structure
JSONparse(text) == [expiry |-> text.expiry, data |-> text.data]

\* two station objects no property read can tell apart
SameStation(a, b) ==
    \A k \in (DOMAIN a) \cup (DOMAIN b) : Prop(a, k) = Prop(b, k)

\* two snapshots no property read can tell apart
SameSnapshot(a, b) ==
    /\ DOMAIN a = DOMAIN b
    /\ \A k \in (DOMAIN a) \ {"stations"} : a[k] = b[k]
    /\ Len(a.stations) = Len(b.stations)
    /\ \A i \in DOMAIN a.stations : SameStation(a.stations[i], b.stations[i])

-----------------------------------------------------------------------------
(* The time-aligned cache over localStorage.                               *)

CACHE_KEY == "weatherDataCache"
WIND_VECTORS_KEY == "windVectorsCache"
StorageKeys == {CACHE_KEY, WIND_VECTORS_KEY}

\* localStorage.getItem(k) = null
NoItem == [kind |-> "none"]

\* a stored text that is not the JSON of a record
Unparseable == [kind |-> "garbage"]

\* JSON.parse(text) and the destructuring of its value do not throw
Parses(text) == text.kind = "json"

\* `Date.now() > expiry`: the entry is past its expiry
Expired_at_expiry(t, expiry) == t >= expiry

Expired(t, expiry) == t > expiry

\* getCachedData(): the value it returns (Null for a miss)
getCachedData_value(st, t) ==
    LET cachedItem == st[CACHE_KEY] IN
    IF cachedItem = NoItem THEN Null
    ELSE IF ~Parses(cachedItem) THEN Null
    ELSE LET parsed == JSONparse(cachedItem) IN
         IF Expired(t, parsed.expiry) THEN Null ELSE parsed.data

getCachedData_storage_keep(st, t) == st

getCachedData_storage_expired_only(st, t) ==
    LET cachedItem == st[CACHE_KEY] IN
    IF cachedItem = NoItem \/ ~Parses(cachedItem) THEN st
    ELSE IF Expired(t, JSONparse(cachedItem).expiry)
         THEN [st EXCEPT ![CACHE_KEY] = NoItem]
         ELSE st

\* getCachedData(): localStorage after it (the expired entry, or the entry
\* that could not be read, removed)
getCachedData_storage(st, t) ==
    LET cachedItem == st[CACHE_KEY] IN
    IF cachedItem = NoItem THEN st
    ELSE IF ~Parses(cachedItem) THEN [st EXCEPT ![CACHE_KEY] = NoItem]
    ELSE IF Expired(t, JSONparse(cachedItem).expiry)
         THEN [st EXCEPT ![CACHE_KEY] = NoItem]
         ELSE st

setCachedData_stale_expiry(st, data, t) ==
    [st EXCEPT ![CACHE_KEY] =
        IF st[CACHE_KEY] = NoItem
        THEN JSONstringify([expiry |-> getNext5MinMark(t), data |-> data])
        ELSE JSONstringify([expiry |-> st[CACHE_KEY].expiry, data |-> data])]

\* setCachedData(data): localStorage after it
setCachedData(st, data, t) ==
    [st EXCEPT ![CACHE_KEY] =
        JSONstringify([expiry |-> getNext5MinMark(t), data |-> data])]

\* saveWindVectors(windVectors): localStorage after it
saveWindVectors(st, windVectors, t) ==
    [st EXCEPT ![WIND_VECTORS_KEY] =
        [kind |-> "json", expiry |-> getNext5MinMark(t), data |-> windVectors]]


-----------------------------------------------------------------------------
(* Stations, locations and the upstream envelope                           *)
(*   {code, errorMsg, data: {stations, readings, readingUnit}}.            *)

\* a location; every location of the model lies on the meridian 104 E
Loc(lat) == [latitude |-> lat, longitude |-> 104]

\* a station record as a feed's `stations` array carries it
RawStation(id, labelLocation, location) ==
    [id |-> id, deviceId |-> id, name |-> id,
     labelLocation |-> labelLocation, location |-> location]

\* calculateDistance (haversine, km) for two points of the meridian
calculateDistance(lat1, lon1, lat2, lon2) ==
    IF lat1 >= lat2 THEN lat1 - lat2 ELSE lat2 - lat1

\* DEFAULT_CONFIG
DefaultRadiusKm == 15
DefaultMaxStations == 20
DefaultMinStations == 5
DEFAULT_CONFIG ==
    [radiusKm |-> DefaultRadiusKm, maxStations |-> DefaultMaxStations,
     minStations |-> DefaultMinStations]

\* one reading batch: {timestamp, data: [{stationId, value}]}
Reading(timestamp, data) == [timestamp |-> timestamp, data |-> data]
Item(stationId, value) == [stationId |-> stationId, value |-> value]

\* a response body that parsed as JSON
Envelope(code, data) == [kind |-> "json", code |-> code, data |-> data]
Data(stations, readings, readingUnit) ==
    [stations |-> stations, readings |-> readings, readingUnit |-> readingUnit]

\* fetch(...) or res.json() rejected: a transport failure
Rejected == [kind |-> "reject"]

\* a response variable not yet assigned (`let windSpeedResponse = null`)
NoResponse == [kind |-> "null"]

\* forEach(item => map[item.stationId] = item.value) over readings[0].data
RECURSIVE MapOfItems(_, _)
MapOfItems(items, acc) ==
    IF items = << >> THEN acc
    ELSE MapOfItems(Tail(items), Put(acc, Head(items).stationId, Head(items).value))

\* the map of the latest reading of a successful response
LatestMap(res) ==
    IF res.data.readings = << >> THEN EmptyMap
    ELSE MapOfItems(res.data.readings[1].data, EmptyMap)

\* `res.code !== 0 || !res.data`
IsErrorEnvelope(res) == res.code # 0 \/ res.data = Null

\* the rain threshold of the acquisition gate: 1 mm, in tenths of a mm
RainGateTenths == 10

significantRain_any_positive(rainfallMap) ==
    \E k \in DOMAIN rainfallMap : rainfallMap[k] > 0

significantRain_strict(rainfallMap) ==
    \E k \in DOMAIN rainfallMap : rainfallMap[k] > RainGateTenths

\* Object.values(rainfallMap).some(value => value >= 1)
significantRain(rainfallMap) ==
    \E k \in DOMAIN rainfallMap : rainfallMap[k] >= RainGateTenths


-----------------------------------------------------------------------------
(* Wind vectors.  Speeds are whole knots; a velocity is in metres per hour *)
(* (1 knot = 1852 m/h), so that 1.852 km/h per knot stays exact.  Wind     *)
(* directions of the model are multiples of 90 degrees, where the cosine   *)
(* and the sine are -1, 0 or 1.                                            *)

MetresPerHourPerKnot == 1852
HalfTurnDeg == 180
FullTurnDeg == 360

\* Math.cos(deg * PI / 180) for deg in {0, 90, 180, 270}, less the rounding
\* residue (below 2e-16) the floating-point value has where this one is 0
CosDeg(deg) ==
    CASE deg = 0 -> 1
      [] deg = 90 -> 0
      [] deg = HalfTurnDeg -> -1
      [] deg = 270 -> 0

\* Math.sin(deg * PI / 180) for deg in {0, 90, 180, 270}, less the same
\* residue
SinDeg(deg) ==
    CASE deg = 0 -> 0
      [] deg = 90 -> 1
      [] deg = HalfTurnDeg -> 0
      [] deg = 270 -> -1

convertToWindVector(speedKnots, directionDeg) ==
    LET speedKmh == speedKnots * MetresPerHourPerKnot
        travelDirection == (directionDeg + HalfTurnDeg) % FullTurnDeg
    IN  [velocityX |-> speedKmh * CosDeg(travelDirection),
         velocityY |-> speedKmh * SinDeg(travelDirection),
         magnitude |-> speedKmh,
         directionDeg |-> travelDirection]

\* a variant that builds a vector for still air too
BuildWindVectors_still_air(windSpeedMap, windDirectionMap) ==
    [id \in {k \in DOMAIN windSpeedMap : k \in DOMAIN windDirectionMap} |->
        convertToWindVector(windSpeedMap[id], windDirectionMap[id])]

\* Step 4 of fetchWeatherData: a vector for each station that has a speed
\* above 0 and a direction
BuildWindVectors(windSpeedMap, windDirectionMap) ==
    [id \in {k \in DOMAIN windSpeedMap :
                k \in DOMAIN windDirectionMap /\ windSpeedMap[k] > 0} |->
        convertToWindVector(windSpeedMap[id], windDirectionMap[id])]

-----------------------------------------------------------------------------
(* Merging the station metadata of the feeds that answered.                *)

\* rawStation.labelLocation || rawStation.location
LocationData(rawStation) ==
    IF Truthy(Prop(rawStation, "labelLocation"))
    THEN Prop(rawStation, "labelLocation")
    ELSE Prop(rawStation, "location")

\* the {latitude, longitude} copy of a location, or undefined
NormalLocation(locationData) ==
    IF Truthy(locationData)
    THEN [latitude |-> locationData.latitude, longitude |-> locationData.longitude]
    ELSE Undefined

\* a variant in which a later feed's location replaces the one held
MergeStation_overwrite(acc, rawStation) ==
    LET locationData == LocationData(rawStation)
        hits == {i \in DOMAIN acc : acc[i].id = rawStation.id}
    IN  IF hits # {}
        THEN LET i == CHOOSE j \in hits : TRUE IN
             IF Truthy(locationData)
             THEN [acc EXCEPT ![i].labelLocation = NormalLocation(locationData)]
             ELSE acc
        ELSE Append(acc, [id |-> rawStation.id,
                          deviceId |-> Prop(rawStation, "deviceId"),
                          name |-> Prop(rawStation, "name"),
                          labelLocation |-> NormalLocation(locationData)])

\* one step of the inner forEach: stationMap after rawStation
MergeStation(acc, rawStation) ==
    LET locationData == LocationData(rawStation)
        hits == {i \in DOMAIN acc : acc[i].id = rawStation.id}
    IN  IF hits # {}
        THEN LET i == CHOOSE j \in hits : TRUE IN
             IF ~Truthy(acc[i].labelLocation) /\ Truthy(locationData)
             THEN [acc EXCEPT ![i].labelLocation = NormalLocation(locationData)]
             ELSE acc
        ELSE Append(acc, [id |-> rawStation.id,
                          deviceId |-> Prop(rawStation, "deviceId"),
                          name |-> Prop(rawStation, "name"),
                          labelLocation |-> NormalLocation(locationData)])

RECURSIVE MergeStations(_, _)
MergeStations(acc, rawStations) ==
    IF rawStations = << >> THEN acc
    ELSE MergeStations(MergeStation(acc, Head(rawStations)), Tail(rawStations))

\* responses.forEach(res => res.data.stations.forEach(...)), then
\* Array.from(stationMap.values())
RECURSIVE MergeResponses(_, _)
MergeResponses(acc, responses) ==
    IF responses = << >> THEN acc
    ELSE MergeResponses(MergeStations(acc, Head(responses).data.stations),
                        Tail(responses))

-----------------------------------------------------------------------------
(* filterNearbyStations.                                                   *)

\* insert `x` into a list sorted by distance, after every entry that is not
\* farther: Array.prototype.sort is stable
RECURSIVE InsertByDistance(_, _)
InsertByDistance(sorted, x) ==
    IF sorted = << >> THEN <<x>>
    ELSE IF Head(sorted).distance <= x.distance
         THEN <<Head(sorted)>> \o InsertByDistance(Tail(sorted), x)
         ELSE <<x>> \o sorted

RECURSIVE SortByDistance_(_, _)
SortByDistance_(todo, sorted) ==
    IF todo = << >> THEN sorted
    ELSE SortByDistance_(Tail(todo), InsertByDistance(sorted, Head(todo)))

\* .sort((a, b) => a.distance - b.distance)
SortByDistance(s) == SortByDistance_(s, << >>)

\* stations.filter(labelLocation).map(station => ({station, distance}))
WithDistance(stations, userLat, userLon) ==
    LET located == FilterIdx(stations,
                       {i \in DOMAIN stations : Truthy(stations[i].labelLocation)})
    IN  [i \in DOMAIN located |->
            [station |-> located[i],
             distance |-> calculateDistance(userLat, userLon,
                              located[i].labelLocation.latitude,
                              located[i].labelLocation.longitude)]]

StationsOf(items) == [i \in DOMAIN items |-> items[i].station]

\* `!userLat`: a coordinate that is 0 (the model passes numbers only)
Falsy(x) == x = 0

\* a variant whose floor needs more than minStations stations
filterNearbyStations_strict_floor(stations, userLat, userLon, config) ==
    IF Falsy(userLat) \/ Falsy(userLon) THEN stations
    ELSE
    LET all == WithDistance(stations, userLat, userLon)
        inRadius == FilterIdx(all, {i \in DOMAIN all : all[i].distance <= config.radiusKm})
        stationsWithDistance == Slice0(SortByDistance(inRadius), config.maxStations)
        nearbyStations == StationsOf(stationsWithDistance)
    IN  IF Len(nearbyStations) < config.minStations /\ Len(stations) > config.minStations
        THEN StationsOf(Slice0(SortByDistance(all), config.minStations))
        ELSE nearbyStations

filterNearbyStations(stations, userLat, userLon, config) ==
    IF Falsy(userLat) \/ Falsy(userLon) THEN stations
    ELSE
    LET all == WithDistance(stations, userLat, userLon)
        inRadius == FilterIdx(all, {i \in DOMAIN all : all[i].distance <= config.radiusKm})
        stationsWithDistance == Slice0(SortByDistance(inRadius), config.maxStations)
        nearbyStations == StationsOf(stationsWithDistance)
    IN  IF Len(nearbyStations) < config.minStations /\ Len(stations) >= config.minStations
        THEN StationsOf(Slice0(SortByDistance(all), config.minStations))
        ELSE nearbyStations


-----------------------------------------------------------------------------
(* The snapshot fetchWeatherData builds from its responses.                *)

\* [rainResponse, windSpeedResponse, windDirResponse].filter(Boolean)
Responses(rainResponse, windSpeedResponse, windDirResponse) ==
    FilterIdx(<<rainResponse, windSpeedResponse, windDirResponse>>,
              {i \in 1..3 : <<rainResponse, windSpeedResponse, windDirResponse>>[i]
                                # NoResponse})

\* res?.data.readingUnit || fallback
UnitOr(res, fallback) == IF res = NoResponse THEN fallback ELSE res.data.readingUnit

\* readings[0]?.timestamp || new Date().toISOString()
TimestampOf(res, t) ==
    IF res.data.readings = << >> THEN t ELSE res.data.readings[1].timestamp

\* a variant that leaves the wind vectors of every station in the snapshot
CombinedData_all_vectors(rainResponse, windSpeedResponse, windDirResponse, userLocation, config, t) ==
    LET rainfallMap == LatestMap(rainResponse)
        windSpeedMap == IF windSpeedResponse = NoResponse THEN EmptyMap
                        ELSE LatestMap(windSpeedResponse)
        windDirectionMap == IF windDirResponse = NoResponse THEN EmptyMap
                            ELSE LatestMap(windDirResponse)
        windVectors == IF windSpeedResponse = NoResponse THEN EmptyMap
                       ELSE BuildWindVectors(windSpeedMap, windDirectionMap)
        allStations == MergeResponses(<< >>,
                           Responses(rainResponse, windSpeedResponse, windDirResponse))
        nearbyStations ==
            IF userLocation # Undefined
            THEN filterNearbyStations(allStations, userLocation.latitude,
                                      userLocation.longitude, config)
            ELSE allStations
        nearbyStationIds == {nearbyStations[i].id : i \in DOMAIN nearbyStations}
        located == userLocation # Undefined
    IN  [stations |-> nearbyStations,
         rainfallMap |-> IF located THEN Restrict(rainfallMap, nearbyStationIds)
                         ELSE rainfallMap,
         windSpeedMap |-> IF located THEN Restrict(windSpeedMap, nearbyStationIds)
                          ELSE windSpeedMap,
         windDirectionMap |-> IF located THEN Restrict(windDirectionMap, nearbyStationIds)
                              ELSE windDirectionMap,
         windVectors |-> windVectors,
         significantRainDetected |-> significantRain(rainfallMap),
         timestamp |-> TimestampOf(rainResponse, t),
         rainfallUnit |-> rainResponse.data.readingUnit,
         windSpeedUnit |-> UnitOr(windSpeedResponse, "knots"),
         windDirectionUnit |-> UnitOr(windDirResponse, "degrees")]

\* a variant that takes the rain flag from the filtered rainfall map
CombinedData_flag_after_filter(rainResponse, windSpeedResponse, windDirResponse, userLocation, config, t) ==
    LET rainfallMap == LatestMap(rainResponse)
        windSpeedMap == IF windSpeedResponse = NoResponse THEN EmptyMap
                        ELSE LatestMap(windSpeedResponse)
        windDirectionMap == IF windDirResponse = NoResponse THEN EmptyMap
                            ELSE LatestMap(windDirResponse)
        windVectors == IF windSpeedResponse = NoResponse THEN EmptyMap
                       ELSE BuildWindVectors(windSpeedMap, windDirectionMap)
        allStations == MergeResponses(<< >>,
                           Responses(rainResponse, windSpeedResponse, windDirResponse))
        nearbyStations ==
            IF userLocation # Undefined
            THEN filterNearbyStations(allStations, userLocation.latitude,
                                      userLocation.longitude, config)
            ELSE allStations
        nearbyStationIds == {nearbyStations[i].id : i \in DOMAIN nearbyStations}
        located == userLocation # Undefined
    IN  [stations |-> nearbyStations,
         rainfallMap |-> IF located THEN Restrict(rainfallMap, nearbyStationIds)
                         ELSE rainfallMap,
         windSpeedMap |-> IF located THEN Restrict(windSpeedMap, nearbyStationIds)
                          ELSE windSpeedMap,
         windDirectionMap |-> IF located THEN Restrict(windDirectionMap, nearbyStationIds)
                              ELSE windDirectionMap,
         windVectors |-> IF located THEN Restrict(windVectors, nearbyStationIds)
                         ELSE windVectors,
         significantRainDetected |->
             significantRain(IF located THEN Restrict(rainfallMap, nearbyStationIds)
                             ELSE rainfallMap),
         timestamp |-> TimestampOf(rainResponse, t),
         rainfallUnit |-> rainResponse.data.readingUnit,
         windSpeedUnit |-> UnitOr(windSpeedResponse, "knots"),
         windDirectionUnit |-> UnitOr(windDirResponse, "degrees")]

\* combinedData, from the three response variables as they stand after
\* step 3 (the wind ones NoResponse when no wind was fetched)
CombinedData(rainResponse, windSpeedResponse, windDirResponse, userLocation, config, t) ==
    LET rainfallMap == LatestMap(rainResponse)
        windSpeedMap == IF windSpeedResponse = NoResponse THEN EmptyMap
                        ELSE LatestMap(windSpeedResponse)
        windDirectionMap == IF windDirResponse = NoResponse THEN EmptyMap
                            ELSE LatestMap(windDirResponse)
        windVectors == IF windSpeedResponse = NoResponse THEN EmptyMap
                       ELSE BuildWindVectors(windSpeedMap, windDirectionMap)
        allStations == MergeResponses(<< >>,
                           Responses(rainResponse, windSpeedResponse, windDirResponse))
        nearbyStations ==
            IF userLocation # Undefined
            THEN filterNearbyStations(allStations, userLocation.latitude,
                                      userLocation.longitude, config)
            ELSE allStations
        nearbyStationIds == {nearbyStations[i].id : i \in DOMAIN nearbyStations}
        located == userLocation # Undefined
    IN  [stations |-> nearbyStations,
         rainfallMap |-> IF located THEN Restrict(rainfallMap, nearbyStationIds)
                         ELSE rainfallMap,
         windSpeedMap |-> IF located THEN Restrict(windSpeedMap, nearbyStationIds)
                          ELSE windSpeedMap,
         windDirectionMap |-> IF located THEN Restrict(windDirectionMap, nearbyStationIds)
                              ELSE windDirectionMap,
         windVectors |-> IF located THEN Restrict(windVectors, nearbyStationIds)
                         ELSE windVectors,
         significantRainDetected |-> significantRain(rainfallMap),
         timestamp |-> TimestampOf(rainResponse, t),
         rainfallUnit |-> rainResponse.data.readingUnit,
         windSpeedUnit |-> UnitOr(windSpeedResponse, "knots"),
         windDirectionUnit |-> UnitOr(windDirResponse, "degrees")]


-----------------------------------------------------------------------------
(* What the three endpoints may answer.                                    *)

\* the timestamp of the readings: 10:00:00.000
ReadingTime == 10 * 60 * 60 * 1000

\* an envelope that reports failure: a non-zero code, or no data
ErrorEnvelopes == {Envelope(1, Null), Envelope(0, Null)}

\* the rainfall endpoint: stations S1 and S2, with S1 at 0.9 mm and S2 at
\* 0 or 1 mm, or no reading at all
RainResponses ==
    LET stations == <<RawStation("S1", Loc(10), Undefined),
                      RawStation("S2", Undefined, Undefined)>>
        batches == {<<Reading(ReadingTime, <<Item("S1", 9), Item("S2", b)>>)>> :
                        b \in {0, 10}} \cup {<< >>}
    IN  {Envelope(0, Data(stations, b, "mm")) : b \in batches}
            \cup ErrorEnvelopes \cup {Rejected}

\* the wind-speed endpoint: station S2; S1 at 5 kn with S2 still, or S2 at
\* 7 kn and S3 at 4 kn
WindSpeedResponses ==
    LET stations == <<RawStation("S2", Undefined, Loc(40))>>
        batches == {<<Reading(ReadingTime, <<Item("S1", 5), Item("S2", 0)>>)>>,
                    <<Reading(ReadingTime, <<Item("S2", 7), Item("S3", 4)>>)>>}
    IN  {Envelope(0, Data(stations, b, "kn")) : b \in batches}
            \cup ErrorEnvelopes \cup {Rejected}

\* the wind-direction endpoint: stations S2, S1 and S3, with directions for
\* S1 and S2
WindDirResponses ==
    LET stations == <<RawStation("S2", Loc(50), Undefined),
                      RawStation("S1", Loc(60), Undefined),
                      RawStation("S3", Loc(70), Undefined)>>
        batches == {<<Reading(ReadingTime, <<Item("S1", 90), Item("S2", 270)>>)>>}
    IN  {Envelope(0, Data(stations, b, "deg")) : b \in batches}
            \cup ErrorEnvelopes \cup {Rejected}

\* the instants a run may start at: 10:02:30.000
StartTimes == {36150000}

-----------------------------------------------------------------------------
(* fetchWeatherData: one slot per invocation in flight.                    *)

Pending == [kind |-> "pending"]

NoRequests == [rainfall |-> 0, wind_speed |-> 0, wind_direction |-> 0]

IdleCall ==
    [pc |-> "idle", forceRefresh |-> FALSE, userLocation |-> Undefined,
     config |-> DEFAULT_CONFIG,
     rainResponse |-> NoResponse, windSpeed |-> NoResponse, windDir |-> NoResponse,
     result |-> Null, requests |-> NoRequests, wrote |-> FALSE, evicted |-> FALSE]

\* a variant that keeps the responses in variables shared by all calls: the
\* snapshot is built from the rainfall response that arrived last, whichever
\* call asked for it
Complete_shared_responses(c, rainResponse, windSpeedResponse, windDirResponse, st, writeOk) ==
    LET others == {d \in Calls \ {c} : call[d].rainResponse \notin {NoResponse, Rejected}
                                        /\ ~IsErrorEnvelope(call[d].rainResponse)}
        shared == IF others = {} THEN rainResponse
                  ELSE call[CHOOSE d \in others : TRUE].rainResponse
        combinedData == CombinedData(shared, windSpeedResponse, windDirResponse,
                                     call[c].userLocation, call[c].config, now)
    IN  /\ storage' = IF writeOk THEN setCachedData(st, combinedData, now) ELSE st
        /\ call' = [call EXCEPT ![c].pc = "returned",
                                ![c].rainResponse = rainResponse,
                                ![c].windSpeed = windSpeedResponse,
                                ![c].windDir = windDirResponse,
                                ![c].result = combinedData,
                                ![c].wrote = writeOk]

\* the tail of the try block: build combinedData, setCachedData, return.
\* setItem may throw (quota, storage disabled): setCachedData catches it.
Complete(c, rainResponse, windSpeedResponse, windDirResponse, st, writeOk) ==
    LET combinedData == CombinedData(rainResponse, windSpeedResponse, windDirResponse,
                                     call[c].userLocation, call[c].config, now)
    IN  /\ storage' = IF writeOk THEN setCachedData(st, combinedData, now) ELSE st
        /\ call' = [call EXCEPT ![c].pc = "returned",
                                ![c].rainResponse = rainResponse,
                                ![c].windSpeed = windSpeedResponse,
                                ![c].windDir = windDirResponse,
                                ![c].result = combinedData,
                                ![c].wrote = writeOk]

\* a lookup keyed by the caller: only a call without a reference location
\* is answered from the cache
Call_keyed_by_location(c, forceRefresh, userLocation, config) ==
    /\ call[c].pc = "idle"
    /\ LET cachedData == IF forceRefresh \/ userLocation # Undefined THEN Null
                         ELSE getCachedData_value(storage, now)
           entered == [IdleCall EXCEPT !.forceRefresh = forceRefresh,
                                       !.userLocation = userLocation,
                                       !.config = config]
       IN  /\ storage' = IF forceRefresh THEN storage
                         ELSE getCachedData_storage(storage, now)
           /\ IF cachedData # Null
              THEN call' = [call EXCEPT ![c] =
                               [entered EXCEPT !.pc = "returned", !.result = cachedData]]
              ELSE call' = [call EXCEPT ![c] =
                               [entered EXCEPT !.pc = "rain",
                                               !.requests.rainfall = 1]]
    /\ UNCHANGED <<now, ticks, clockVars, pureVars, engineVars>>

\* fetchWeatherData(forceRefresh, userLocation, config) up to its first await
Call(c, forceRefresh, userLocation, config) ==
    /\ call[c].pc = "idle"
    /\ LET cachedData == IF forceRefresh THEN Null ELSE getCachedData_value(storage, now)
           entered == [IdleCall EXCEPT !.forceRefresh = forceRefresh,
                                       !.userLocation = userLocation,
                                       !.config = config,
                                       !.evicted = ~forceRefresh /\
                                           getCachedData_storage(storage, now) # storage]
       IN  /\ storage' = IF forceRefresh THEN storage
                         ELSE getCachedData_storage(storage, now)
           /\ IF cachedData # Null
              THEN call' = [call EXCEPT ![c] =
                               [entered EXCEPT !.pc = "returned", !.result = cachedData]]
              ELSE call' = [call EXCEPT ![c] =
                               [entered EXCEPT !.pc = "rain",
                                               !.requests.rainfall = 1]]
    /\ UNCHANGED <<now, ticks, clockVars, pureVars, engineVars>>

\* the rainfall fetch settles; steps 1 and 2, and the whole rest when no
\* wind is needed
RainfallReply(c, res, writeOk) ==
    /\ call[c].pc = "rain"
    /\ IF res = Rejected
       THEN /\ call' = [call EXCEPT ![c].pc = "rejected", ![c].rainResponse = res]
            /\ UNCHANGED storage
       ELSE IF IsErrorEnvelope(res)
       THEN /\ call' = [call EXCEPT ![c].pc = "rejected", ![c].rainResponse = res]
            /\ UNCHANGED storage
       ELSE IF significantRain(LatestMap(res))
       THEN /\ call' = [call EXCEPT ![c].pc = "wind",
                                    ![c].rainResponse = res,
                                    ![c].windSpeed = Pending,
                                    ![c].windDir = Pending,
                                    ![c].requests.wind_speed = @ + 1,
                                    ![c].requests.wind_direction = @ + 1]
            /\ UNCHANGED storage
       ELSE Complete(c, res, NoResponse, NoResponse, storage, writeOk)
    /\ UNCHANGED <<now, ticks, clockVars, pureVars, engineVars>>

AfterWind_cache_first(c, windSpeedResponse, windDirResponse, vectorsOk, writeOk) ==
    IF IsErrorEnvelope(windSpeedResponse) \/ IsErrorEnvelope(windDirResponse)
    THEN /\ call' = [call EXCEPT ![c].pc = "rejected",
                                 ![c].windSpeed = windSpeedResponse,
                                 ![c].windDir = windDirResponse]
         /\ storage' = setCachedData(storage,
                           CombinedData(call[c].rainResponse, NoResponse, NoResponse,
                                        call[c].userLocation, call[c].config, now), now)
    ELSE LET windVectors == BuildWindVectors(LatestMap(windSpeedResponse),
                                             LatestMap(windDirResponse))
             st == IF vectorsOk THEN saveWindVectors(storage, windVectors, now)
                   ELSE storage
         IN  Complete(c, call[c].rainResponse, windSpeedResponse, windDirResponse,
                      st, writeOk)

AfterWind_partial(c, windSpeedResponse, windDirResponse, vectorsOk, writeOk) ==
    IF IsErrorEnvelope(windSpeedResponse) /\ IsErrorEnvelope(windDirResponse)
    THEN /\ call' = [call EXCEPT ![c].pc = "rejected",
                                 ![c].windSpeed = windSpeedResponse,
                                 ![c].windDir = windDirResponse]
         /\ UNCHANGED storage
    ELSE IF IsErrorEnvelope(windSpeedResponse) \/ IsErrorEnvelope(windDirResponse)
    THEN /\ storage' = setCachedData(storage,
                           CombinedData(call[c].rainResponse, NoResponse, NoResponse,
                                        call[c].userLocation, call[c].config, now), now)
         /\ call' = [call EXCEPT ![c].pc = "returned",
                                 ![c].windSpeed = windSpeedResponse,
                                 ![c].windDir = windDirResponse,
                                 ![c].wrote = TRUE,
                                 ![c].result =
                                     CombinedData(call[c].rainResponse, NoResponse, NoResponse,
                                                  call[c].userLocation, call[c].config, now)]
    ELSE LET windVectors == BuildWindVectors(LatestMap(windSpeedResponse),
                                             LatestMap(windDirResponse))
             st == IF vectorsOk THEN saveWindVectors(storage, windVectors, now)
                   ELSE storage
         IN  Complete(c, call[c].rainResponse, windSpeedResponse, windDirResponse,
                      st, writeOk)

\* the continuation of Promise.all once both wind fetches have resolved:
\* the two envelope checks, steps 3 and 4, and the rest
AfterWind(c, windSpeedResponse, windDirResponse, vectorsOk, writeOk) ==
    IF IsErrorEnvelope(windSpeedResponse) \/ IsErrorEnvelope(windDirResponse)
    THEN /\ call' = [call EXCEPT ![c].pc = "rejected",
                                 ![c].windSpeed = windSpeedResponse,
                                 ![c].windDir = windDirResponse]
         /\ UNCHANGED storage
    ELSE LET windVectors == BuildWindVectors(LatestMap(windSpeedResponse),
                                             LatestMap(windDirResponse))
             st == IF vectorsOk THEN saveWindVectors(storage, windVectors, now)
                   ELSE storage
         IN  Complete(c, call[c].rainResponse, windSpeedResponse, windDirResponse,
                      st, writeOk)

\* the wind-speed fetch settles
WindSpeedReply(c, res, vectorsOk, writeOk) ==
    /\ call[c].pc = "wind"
    /\ call[c].windSpeed = Pending
    /\ IF res = Rejected
       THEN /\ call' = [call EXCEPT ![c].pc = "rejected", ![c].windSpeed = res]
            /\ UNCHANGED storage
       ELSE IF call[c].windDir = Pending
       THEN /\ call' = [call EXCEPT ![c].windSpeed = res]
            /\ UNCHANGED storage
       ELSE AfterWind(c, res, call[c].windDir, vectorsOk, writeOk)
    /\ UNCHANGED <<now, ticks, clockVars, pureVars, engineVars>>

\* the wind-direction fetch settles
WindDirReply(c, res, vectorsOk, writeOk) ==
    /\ call[c].pc = "wind"
    /\ call[c].windDir = Pending
    /\ IF res = Rejected
       THEN /\ call' = [call EXCEPT ![c].pc = "rejected", ![c].windDir = res]
            /\ UNCHANGED storage
       ELSE IF call[c].windSpeed = Pending
       THEN /\ call' = [call EXCEPT ![c].windDir = res]
            /\ UNCHANGED storage
       ELSE AfterWind(c, call[c].windSpeed, res, vectorsOk, writeOk)
    /\ UNCHANGED <<now, ticks, clockVars, pureVars, engineVars>>

\* the caller has taken the outcome; the slot is free for the next call
Settle(c) ==
    /\ call[c].pc \in {"returned", "rejected"}
    /\ call' = [call EXCEPT ![c] = IdleCall]
    /\ UNCHANGED <<now, ticks, storage, clockVars, pureVars, engineVars>>

\* time passes
Tick(d) ==
    /\ ticks < MaxTicks
    /\ now' = now + d
    /\ ticks' = ticks + 1
    /\ UNCHANGED <<storage, call, clockVars, pureVars, engineVars>>


-----------------------------------------------------------------------------
(* The clock function on its own: getNext5MinMark at an instant tIn.       *)

\* the harness walks the minutes 09:50 .. 09:50 + MaxMinute
MaxMinute == 25

\* 09:50:00.000
ClockBase == (9 * 60 + 50) * 60 * 1000

ClockInputs ==
    {ClockBase + m * MsPerMinute + sec * MsPerSecond + ms :
        m \in 0..MaxMinute, sec \in {0, 30, 59}, ms \in {0, 1, 999}}

\* tOut before the write
NotComputed == 0 - 1

\* a cache write at the instant tIn computes its expiry
ComputeExpiry ==
    /\ tOut = NotComputed
    /\ tOut' = getNext5MinMark(tIn)
    /\ UNCHANGED <<tIn, weatherVars, engineVars, pureVars>>

ClockIdle == tIn = 0 /\ tOut = NotComputed

\* no pure function under test
NoArg == [fn |-> "none"]
PureIdle == arg = NoArg /\ out = NoArg

-----------------------------------------------------------------------------
(* ThreadedDistanceCalculator.  A request of sendToWorker is known by the  *)
(* number n of its identifier msg_n.  `eng.workers` is the length of the   *)
(* workers array.  The station list of an invocation is EngineStations(n), *)
(* known by the number n of its stations that have a location.             *)

\* how many requests a run may dispatch
MaxMessages == 2
\* how many workers the array may come to hold
MaxWorkers == 3

MessageIds == 0..(MaxMessages - 1)

\* the invocation slots of calculateDistancesParallel
CalcIds == {1}

PoolCap == 8
SingleWorkerMax == 20

Min(a, b) == IF a <= b THEN a ELSE b

\* Math.ceil(a / b) for positive b
CeilDiv(a, b) == (a + b - 1) \div b

\* Math.min(this.cpuCores, 8)
PoolSize(cpuCores) == Min(cpuCores, PoolCap)

\* chunks.length: the slices of chunkSize that cover n stations
ChunkCount(n, workers) == CeilDiv(n, CeilDiv(n, Min(workers, n)))

\* chunkSize: Math.ceil(n / Math.min(workers, n))
ChunkSize(n, workers) == CeilDiv(n, Min(workers, n))

\* a request identifier not yet handed out; lo..hi are the positions in
\* stationData of the stations a request carries
UnusedRequest ==
    [promise |-> "none", timer |-> "none", msg |-> "none", workerIndex |-> 0,
     lo |-> 1, hi |-> 0, cut |-> FALSE]

IdleCalc == [state |-> "idle", via |-> "none", reqs |-> {}, n |-> 0, result |-> << >>]

\* a station as the engine takes it; ids are unique in a station list
EngineStation(id, labelLocation) == [id |-> id, labelLocation |-> labelLocation]

\* the station list of an invocation of the engine model: one station
\* without a location, then n stations one kilometre apart
EngineStations(n) ==
    <<EngineStation(0, Undefined)>> \o [i \in 1..n |-> EngineStation(i, Loc(i))]

\* the reference point of an invocation of the engine model
EngineUser == Loc(3)

\* calculateDistanceSync (haversine, km) for two points of the meridian
calculateDistanceSync(lat1, lon1, lat2, lon2) ==
    IF lat1 >= lat2 THEN lat1 - lat2 ELSE lat2 - lat1

\* the worker's calculateDistance (haversine, km), same meridian
workerCalculateDistance(lat1, lon1, lat2, lon2) ==
    IF lat1 >= lat2 THEN lat1 - lat2 ELSE lat2 - lat1

\* the worker's calculateDistancesForStations
calculateDistancesForStations(userLat, userLon, stations) ==
    [i \in DOMAIN stations |->
        [id |-> stations[i].id,
         distance |-> workerCalculateDistance(userLat, userLon,
                                              stations[i].lat, stations[i].lon)]]

\* stations.filter(station => station.labelLocation)
LocatedStations(stations) ==
    FilterIdx(stations, {i \in DOMAIN stations : Truthy(stations[i].labelLocation)})

\* stationData: what is sent to the workers
StationData(stations) ==
    LET located == LocatedStations(stations)
    IN  [i \in DOMAIN located |->
            [id |-> located[i].id,
             lat |-> located[i].labelLocation.latitude,
             lon |-> located[i].labelLocation.longitude]]

\* calculateDistancesSync: one entry per located station, in input order
calculateDistancesSync(stations, userLat, userLon) ==
    LET located == LocatedStations(stations)
    IN  [i \in DOMAIN located |->
            [station |-> located[i],
             distance |-> calculateDistanceSync(userLat, userLon,
                              located[i].labelLocation.latitude,
                              located[i].labelLocation.longitude)]]

\* new Map(results.map(r => [r.id, r.distance])): a later entry for an id
\* replaces an earlier one
ResultMap(results) ==
    [k \in {results[i].id : i \in DOMAIN results} |->
        results[CHOOSE i \in DOMAIN results :
                    /\ results[i].id = k
                    /\ \A j \in DOMAIN results : j > i => results[j].id # k].distance]

\* mapResultsToStations: the stations whose id is among the results, in
\* input order
mapResultsToStations(results, stations) ==
    LET resultMap == ResultMap(results)
        kept == FilterIdx(stations,
                    {i \in DOMAIN stations : stations[i].id \in DOMAIN resultMap})
    IN  [i \in DOMAIN kept |->
            [station |-> kept[i], distance |-> resultMap[kept[i].id]]]

\* results.flat() over the resolved requests of an invocation, in the
\* order of their dispatch; a resolved request carries the worker's
\* distances for the stations lo..hi it was sent
RECURSIVE FlatResults(_, _, _)
FlatResults(reqs, rq, stationData) ==
    LET resolved == {r \in reqs : rq[r].promise = "resolved"}
    IN  IF resolved = {} THEN << >>
        ELSE LET first == CHOOSE r \in resolved : \A o \in resolved : r <= o
             IN  calculateDistancesForStations(EngineUser.latitude, EngineUser.longitude,
                     SubSeq(stationData, rq[first].lo, rq[first].hi))
                 \o FlatResults(resolved \ {first}, rq, stationData)

\* calculateDistancesSync on the station list of an invocation, for every
\* length up to the first one that is split among workers
SyncResults ==
    [n \in 0..(SingleWorkerMax + 1) |->
        calculateDistancesSync(EngineStations(n), EngineUser.latitude, EngineUser.longitude)]

\* what an invocation returns from the catch block
SyncResult(n) == SyncResults[n]

\* what an invocation returns once Promise.all has resolved
WorkersResult(cl, rq) ==
    mapResultsToStations(
        FlatResults(cl.reqs, rq, StationData(EngineStations(cl.n))),
        EngineStations(cl.n))

\* a variant that goes on at the first resolved request
Resume_first_reply(cl, rq) ==
    IF cl.state # "awaiting" THEN cl
    ELSE IF \E id \in cl.reqs : rq[id].promise = "rejected"
         THEN [cl EXCEPT !.state = "done", !.via = "sync",
                         !.result = SyncResult(cl.n)]
    ELSE IF \E id \in cl.reqs : rq[id].promise = "resolved"
         THEN [cl EXCEPT !.state = "done", !.via = "workers",
                         !.result = WorkersResult(cl, rq)]
    ELSE cl

\* an invocation awaiting its requests goes on as soon as one of them is
\* rejected (the catch block: calculateDistancesSync) or all are resolved
Resume(cl, rq) ==
    IF cl.state # "awaiting" THEN cl
    ELSE IF \E id \in cl.reqs : rq[id].promise = "rejected"
         THEN [cl EXCEPT !.state = "done", !.via = "sync",
                         !.result = SyncResult(cl.n)]
    ELSE IF \A id \in cl.reqs : rq[id].promise = "resolved"
         THEN [cl EXCEPT !.state = "done", !.via = "workers",
                         !.result = WorkersResult(cl, rq)]
    ELSE cl

ResumeAll(rq) == [k \in CalcIds |-> Resume(calc[k], rq)]

\* initialize(): `created` workers are pushed before `new Worker` throws,
\* or all poolSize of them when it does not
initialize(created) ==
    /\ created \in 0..PoolSize(eng.cpuCores)
    /\ eng.workers + created <= MaxWorkers
    /\ IF eng.isInitialized
       THEN UNCHANGED eng
       ELSE eng' = [eng EXCEPT !.workers = @ + created,
                               !.isInitialized = (created = PoolSize(eng.cpuCores))]
    /\ UNCHANGED <<req, calc, weatherVars, clockVars, pureVars>>

\* sendToWorker: the request msg_n for the n-th message, carrying the
\* stations lo..hi
Sent(n, workers, lo, hi) ==
    [promise |-> "pending", timer |-> "armed", msg |-> "queued",
     workerIndex |-> n % workers, lo |-> lo, hi |-> hi, cut |-> FALSE]

\* calculateDistancesParallel on a list with n located stations
calculateDistancesParallel(k, n) ==
    /\ calc[k].state = "idle"
    /\ IF ~eng.isInitialized \/ eng.workers = 0
       THEN /\ calc' = [calc EXCEPT ![k] = [state |-> "done", via |-> "sync",
                                            reqs |-> {}, n |-> n,
                                            result |-> SyncResult(n)]]
            /\ UNCHANGED <<eng, req>>
       ELSE IF n = 0
       THEN /\ calc' = [calc EXCEPT ![k] = [state |-> "done", via |-> "empty",
                                            reqs |-> {}, n |-> n, result |-> << >>]]
            /\ UNCHANGED <<eng, req>>
       ELSE LET single == n <= SingleWorkerMax
                count == IF single THEN 1 ELSE ChunkCount(n, eng.workers)
                chunkSize == IF single THEN n ELSE ChunkSize(n, eng.workers)
                ids == eng.messageId .. (eng.messageId + count - 1)
            IN  /\ eng.messageId + count <= MaxMessages
                /\ req' = [id \in MessageIds |->
                              IF id \in ids
                              THEN Sent(id, eng.workers,
                                        (id - eng.messageId) * chunkSize + 1,
                                        Min((id - eng.messageId + 1) * chunkSize, n))
                              ELSE req[id]]
                /\ eng' = [eng EXCEPT !.messageId = @ + count,
                                      !.pendingRequests = @ \cup ids]
                /\ calc' = [calc EXCEPT ![k] = [state |-> "awaiting", via |-> "none",
                                                reqs |-> ids, n |-> n, result |-> << >>]]
    /\ UNCHANGED <<weatherVars, clockVars, pureVars>>

\* the worker's self.onmessage: it answers the request with success or error
WorkerAnswers(id, type) ==
    /\ req[id].msg = "queued"
    /\ req' = [req EXCEPT ![id].msg = type]
    /\ UNCHANGED <<eng, calc, weatherVars, clockVars, pureVars>>

\* a variant that settles the oldest pending request, whatever the
\* identifier of the reply
OnMessage_oldest_pending(id) ==
    /\ req[id].msg \in {"success", "error"}
    /\ LET known == eng.pendingRequests # {}
           first == IF known
                    THEN CHOOSE i \in eng.pendingRequests :
                             \A j \in eng.pendingRequests : i <= j
                    ELSE id
           rq == [[req EXCEPT ![id].msg = "handled"] EXCEPT
                     ![first].promise =
                         IF ~known THEN @
                         ELSE IF req[id].msg = "success" THEN "resolved"
                         ELSE "rejected"]
       IN  /\ req' = rq
           /\ eng' = [eng EXCEPT !.pendingRequests = @ \ {first}]
           /\ calc' = ResumeAll(rq)
    /\ UNCHANGED <<weatherVars, clockVars, pureVars>>

\* a variant that settles with every reply, pending or not
OnMessage_settles_unknown(id) ==
    /\ req[id].msg \in {"success", "error"}
    /\ LET rq == [req EXCEPT ![id].msg = "handled",
                             ![id].promise =
                                 IF req[id].msg = "success" THEN "resolved"
                                 ELSE "rejected"]
       IN  /\ req' = rq
           /\ eng' = [eng EXCEPT !.pendingRequests = @ \ {id}]
           /\ calc' = ResumeAll(rq)
    /\ UNCHANGED <<weatherVars, clockVars, pureVars>>

\* worker.onmessage in the engine
OnMessage(id) ==
    /\ req[id].msg \in {"success", "error"}
    /\ LET known == id \in eng.pendingRequests
           rq == [req EXCEPT ![id].msg = "handled",
                             ![id].promise =
                                 IF ~known THEN @
                                 ELSE IF req[id].msg = "success" THEN "resolved"
                                 ELSE "rejected"]
       IN  /\ req' = rq
           /\ eng' = [eng EXCEPT !.pendingRequests = @ \ {id}]
           /\ calc' = ResumeAll(rq)
    /\ UNCHANGED <<weatherVars, clockVars, pureVars>>

\* a variant whose timer callback rejects nothing
Timeout_rejects_nothing(id) ==
    /\ req[id].timer = "armed"
    /\ req' = [req EXCEPT ![id].timer = "fired"]
    /\ UNCHANGED <<eng, calc, weatherVars, clockVars, pureVars>>

\* the setTimeout callback of sendToWorker, 10 s after the dispatch
Timeout(id) ==
    /\ req[id].timer = "armed"
    /\ LET known == id \in eng.pendingRequests
           rq == [req EXCEPT ![id].timer = "fired",
                             ![id].promise = IF known THEN "rejected" ELSE @]
       IN  /\ req' = rq
           /\ eng' = [eng EXCEPT !.pendingRequests = @ \ {id}]
           /\ calc' = ResumeAll(rq)
    /\ UNCHANGED <<weatherVars, clockVars, pureVars>>

\* a variant that leaves the pool flagged as initialized
terminate_keep_initialized ==
    /\ IF eng.workers > 0
       THEN /\ eng' = [eng EXCEPT !.workers = 0, !.pendingRequests = {}]
            /\ req' = [id \in MessageIds |->
                          [req[id] EXCEPT
                              !.msg = IF @ = "queued" THEN "lost" ELSE @,
                              !.cut = @ \/ id \in eng.pendingRequests]]
       ELSE UNCHANGED <<eng, req>>
    /\ UNCHANGED <<calc, weatherVars, clockVars, pureVars>>

\* terminate(): the workers die with the messages queued for them
terminate ==
    /\ IF eng.workers > 0
       THEN /\ eng' = [eng EXCEPT !.workers = 0, !.isInitialized = FALSE,
                                  !.pendingRequests = {}]
            /\ req' = [id \in MessageIds |->
                          [req[id] EXCEPT
                              !.msg = IF @ = "queued" THEN "lost" ELSE @,
                              !.cut = @ \/ id \in eng.pendingRequests]]
       ELSE UNCHANGED <<eng, req>>
    /\ UNCHANGED <<calc, weatherVars, clockVars, pureVars>>

\* the caller has taken the result of an invocation
Returned(k) ==
    /\ calc[k].state = "done"
    /\ calc' = [calc EXCEPT ![k] = IdleCalc]
    /\ UNCHANGED <<eng, req, weatherVars, clockVars, pureVars>>

\* the engine left alone
EngineIdle ==
    /\ eng = [workers |-> 0, isInitialized |-> FALSE, cpuCores |-> 1,
              messageId |-> 0, pendingRequests |-> {}]
    /\ req = [id \in MessageIds |-> UnusedRequest]
    /\ calc = [k \in CalcIds |-> IdleCalc]

-----------------------------------------------------------------------------
(* The two paths of calculateDistancesParallel as functions of a station   *)
(* list, a reference point and the number of workers: what the worker path *)
(* returns when every request is answered with success, and what           *)
(* calculateDistancesSync returns.                                         *)

\* a variant whose slices are one element short
RECURSIVE Chunks_short(_, _)
Chunks_short(stationData, chunkSize) ==
    IF stationData = << >> THEN << >>
    ELSE <<Slice0(stationData, chunkSize - 1)>>
         \o Chunks_short(IF Len(stationData) <= chunkSize THEN << >>
                         ELSE SubSeq(stationData, chunkSize + 1, Len(stationData)),
                         chunkSize)

\* for (i = 0; i < n; i += chunkSize) chunks.push(stationData.slice(i, i + chunkSize))
RECURSIVE Chunks(_, _)
Chunks(stationData, chunkSize) ==
    IF stationData = << >> THEN << >>
    ELSE <<Slice0(stationData, chunkSize)>>
         \o Chunks(IF Len(stationData) <= chunkSize THEN << >>
                   ELSE SubSeq(stationData, chunkSize + 1, Len(stationData)),
                   chunkSize)

\* Array.prototype.flat()
RECURSIVE Flat(_)
Flat(results) ==
    IF results = << >> THEN << >> ELSE Head(results) \o Flat(Tail(results))

\* the try block of calculateDistancesParallel with every worker answering
WorkerPath(stations, userLat, userLon, workers) ==
    LET stationData == StationData(stations)
        n == Len(stationData)
    IN  IF n = 0 THEN << >>
        ELSE IF n <= SingleWorkerMax
        THEN mapResultsToStations(
                 calculateDistancesForStations(userLat, userLon, stationData), stations)
        ELSE LET chunks == Chunks(stationData, ChunkSize(n, workers))
                 results == [j \in DOMAIN chunks |->
                                calculateDistancesForStations(userLat, userLon, chunks[j])]
             IN  mapResultsToStations(Flat(results), stations)

\* a station list of n stations: station i lies at (i * stride) mod 7 km,
\* and has no location when holeEvery divides i
PathStations(n, stride, holeEvery) ==
    [i \in 1..n |->
        EngineStation(i, IF holeEvery > 0 /\ i % holeEvery = 0 THEN Undefined
                         ELSE Loc((i * stride) % 7))]

PathInputs ==
    {[fn |-> "distances", stations |-> PathStations(n, stride, holeEvery),
      userLat |-> lat, userLon |-> 104, workers |-> w] :
        n \in {0, 1, 2, 20, 21, 22, 25}, stride \in {1, 3}, holeEvery \in {0, 1, 3},
        lat \in {0, 5}, w \in 1..PoolCap}

\* `chunks` are the station lists given to sendToWorker, in dispatch order
ComputeDistances ==
    /\ arg.fn = "distances" /\ out = NoArg
    /\ LET stationData == StationData(arg.stations)
           n == Len(stationData)
       IN  out' = [worker |-> WorkerPath(arg.stations, arg.userLat, arg.userLon,
                                         arg.workers),
                   sync |-> calculateDistancesSync(arg.stations, arg.userLat, arg.userLon),
                   chunks |-> IF n = 0 THEN << >>
                              ELSE IF n <= SingleWorkerMax THEN <<stationData>>
                              ELSE Chunks(stationData, ChunkSize(n, arg.workers))]
    /\ UNCHANGED <<arg, weatherVars, clockVars, engineVars>>

-----------------------------------------------------------------------------
(* filterNearbyStations as a function of a station list, a reference point *)
(* and a configuration.                                                    *)

\* the longest station list tried
MaxListLen == 4

\* the station lists: station i of a list has id i and lies nowhere, or at
\* 3, 7 or 30 km
FilterLists ==
    UNION {{[i \in 1..n |-> EngineStation(i, places[i])] :
               places \in [1..n -> {Undefined, Loc(3), Loc(7), Loc(30)}]} :
           n \in 0..MaxListLen}

\* the configurations, minStations above maxStations among them
FilterConfigs ==
    {[radiusKm |-> r, maxStations |-> mx, minStations |-> mn] :
        r \in {1, 15}, mx \in {1, 2, 3}, mn \in {0, 1, 2, 3}}

FilterInputs ==
    {[fn |-> "filter", stations |-> l, userLat |-> lat, userLon |-> 104, config |-> c] :
        l \in FilterLists, lat \in {0, 5}, c \in FilterConfigs}

ApplyFilter ==
    /\ arg.fn = "filter" /\ out = NoArg
    /\ out' = [stations |->
                  filterNearbyStations(arg.stations, arg.userLat, arg.userLon, arg.config)]
    /\ UNCHANGED <<arg, weatherVars, clockVars, engineVars>>

-----------------------------------------------------------------------------
(* calculateRainPrediction.  Positions are kilometres along the meridian,  *)
(* velocities metres per hour (as the wind vectors above), rainfall tenths *)
(* of a millimetre.  A time in minutes is the fraction num / den, compared *)
(* and rounded without loss.                                               *)

PREDICTION_TIME_MINUTES == 15

\* SIGNIFICANT_RAIN_THRESHOLD_MM = 3, in tenths of a millimetre
SIGNIFICANT_RAIN_THRESHOLD_MM == 30

\* toCartesian: lonDiff is 0 on the meridian, so x = R * 0 * cos = 0; y is
\* the arc between the latitudes
toCartesian(location, reference) ==
    [x |-> 0, y |-> location.latitude - reference.latitude]

\* Math.sqrt(x * x + y * y) for a vector with one zero component
Norm(x, y) ==
    LET a == IF x >= 0 THEN x ELSE 0 - x
        b == IF y >= 0 THEN y ELSE 0 - y
    IN  IF a = 0 THEN b ELSE a

\* Math.round(num / den) for num >= 0 and den > 0
MathRound(num, den) == (2 * num + den) \div (2 * den)

\* a variant that takes the acquisition's 1 mm for the threshold
IsRainyStation_one_mm(weatherData, station) ==
    /\ Truthy(station.labelLocation)
    /\ (IF station.id \in DOMAIN weatherData.rainfallMap
        THEN weatherData.rainfallMap[station.id] ELSE 0) >= RainGateTenths
    /\ station.id \in DOMAIN weatherData.windVectors
    /\ weatherData.windVectors[station.id].magnitude > 0

\* the filter that selects rainyStations
IsRainyStation(weatherData, station) ==
    /\ Truthy(station.labelLocation)
    /\ (IF station.id \in DOMAIN weatherData.rainfallMap
        THEN weatherData.rainfallMap[station.id] ELSE 0) >= SIGNIFICANT_RAIN_THRESHOLD_MM
    /\ station.id \in DOMAIN weatherData.windVectors
    /\ weatherData.windVectors[station.id].magnitude > 0

\* the body of the loop over rainyStations: the threats a station adds.
\* effectiveVelocity = dotProduct / distanceToUser (m/h), so
\* timeToReach = distanceToUser / effectiveVelocity * 60
\*             = 60 * 1000 * distanceToUser^2 / dotProduct minutes
ThreatsOf_strict(station, userLocation, weatherData) ==
    LET windVector == weatherData.windVectors[station.id]
        stationCartesian == toCartesian(station.labelLocation, userLocation)
        stationToUserX == 0 - stationCartesian.x
        stationToUserY == 0 - stationCartesian.y
        distanceToUser == Norm(stationToUserX, stationToUserY)
        dotProduct == windVector.velocityX * stationToUserX
                      + windVector.velocityY * stationToUserY
        num == 60 * 1000 * distanceToUser * distanceToUser
    IN  IF dotProduct > 0 /\ num < PREDICTION_TIME_MINUTES * dotProduct
        THEN <<[stationName |-> station.name,
                timeToReach |-> MathRound(num, dotProduct),
                distance |-> distanceToUser]>>
        ELSE << >>

\* a variant that takes a wind blowing away for one blowing towards
ThreatsOf_either_way(station, userLocation, weatherData) ==
    LET windVector == weatherData.windVectors[station.id]
        stationCartesian == toCartesian(station.labelLocation, userLocation)
        stationToUserX == 0 - stationCartesian.x
        stationToUserY == 0 - stationCartesian.y
        distanceToUser == Norm(stationToUserX, stationToUserY)
        dotProduct == Norm(0, windVector.velocityX * stationToUserX
                              + windVector.velocityY * stationToUserY)
        num == 60 * 1000 * distanceToUser * distanceToUser
    IN  IF dotProduct > 0 /\ num <= PREDICTION_TIME_MINUTES * dotProduct
        THEN <<[stationName |-> station.name,
                timeToReach |-> MathRound(num, dotProduct),
                distance |-> distanceToUser]>>
        ELSE << >>

\* a variant that lets a dot product of 0 through to the division
ThreatsOf_at_zero(station, userLocation, weatherData) ==
    LET windVector == weatherData.windVectors[station.id]
        stationCartesian == toCartesian(station.labelLocation, userLocation)
        stationToUserX == 0 - stationCartesian.x
        stationToUserY == 0 - stationCartesian.y
        distanceToUser == Norm(stationToUserX, stationToUserY)
        dotProduct == windVector.velocityX * stationToUserX
                      + windVector.velocityY * stationToUserY
        num == 60 * 1000 * distanceToUser * distanceToUser
    IN  IF dotProduct >= 0 /\ num <= PREDICTION_TIME_MINUTES * dotProduct
        THEN <<[stationName |-> station.name,
                timeToReach |-> IF dotProduct = 0 THEN 0 ELSE MathRound(num, dotProduct),
                distance |-> distanceToUser]>>
        ELSE << >>

ThreatsOf(station, userLocation, weatherData) ==
    LET windVector == weatherData.windVectors[station.id]
        stationCartesian == toCartesian(station.labelLocation, userLocation)
        stationToUserX == 0 - stationCartesian.x
        stationToUserY == 0 - stationCartesian.y
        distanceToUser == Norm(stationToUserX, stationToUserY)
        dotProduct == windVector.velocityX * stationToUserX
                      + windVector.velocityY * stationToUserY
        num == 60 * 1000 * distanceToUser * distanceToUser
    IN  IF dotProduct > 0 /\ num <= PREDICTION_TIME_MINUTES * dotProduct
        THEN <<[stationName |-> station.name,
                timeToReach |-> MathRound(num, dotProduct),
                distance |-> distanceToUser]>>
        ELSE << >>

\* threats after the loop, in the order of rainyStations
RECURSIVE Threats(_, _, _)
Threats(rainyStations, userLocation, weatherData) ==
    IF rainyStations = << >> THEN << >>
    ELSE ThreatsOf(Head(rainyStations), userLocation, weatherData)
         \o Threats(Tail(rainyStations), userLocation, weatherData)

\* (a, b) => a.timeToReach - b.timeToReach || a.distance - b.distance
ThreatBefore(a, b) ==
    a.timeToReach < b.timeToReach
        \/ (a.timeToReach = b.timeToReach /\ a.distance < b.distance)

\* threats.sort(...): a stable insertion
RECURSIVE InsertThreat(_, _)
InsertThreat(sorted, x) ==
    IF sorted = << >> THEN <<x>>
    ELSE IF ThreatBefore(x, Head(sorted)) THEN <<x>> \o sorted
         ELSE <<Head(sorted)>> \o InsertThreat(Tail(sorted), x)

RECURSIVE SortThreats_(_, _)
SortThreats_(todo, sorted) ==
    IF todo = << >> THEN sorted
    ELSE SortThreats_(Tail(todo), InsertThreat(sorted, Head(todo)))

SortThreats(threats) == SortThreats_(threats, << >>)

\* the message returned, by its kind and the values it prints
Outcome(kind, stationName, minutes) ==
    [kind |-> kind, stationName |-> stationName, minutes |-> minutes]

VeryCloseMinutes == 5

\* a variant whose "very close" wording stops below 5 minutes
calculateRainPrediction_below_five(userLocation, weatherData) ==
    IF ~weatherData.significantRainDetected THEN Outcome("stay dry", Null, Null)
    ELSE
    LET rainyStations ==
            FilterIdx(weatherData.stations,
                {i \in DOMAIN weatherData.stations :
                    IsRainyStation(weatherData, weatherData.stations[i])})
    IN  IF Len(rainyStations) = 0 THEN Outcome("elsewhere", Null, Null)
        ELSE
        LET threats == Threats(rainyStations, userLocation, weatherData)
        IN  IF Len(threats) > 0
            THEN LET closestThreat == SortThreats(threats)[1]
                 IN  IF closestThreat.timeToReach < VeryCloseMinutes
                     THEN Outcome("very close", closestThreat.stationName,
                                  closestThreat.timeToReach)
                     ELSE Outcome("moving your way", closestThreat.stationName,
                                  closestThreat.timeToReach)
            ELSE Outcome("not heading", Null, Null)

calculateRainPrediction(userLocation, weatherData) ==
    IF ~weatherData.significantRainDetected THEN Outcome("stay dry", Null, Null)
    ELSE
    LET rainyStations ==
            FilterIdx(weatherData.stations,
                {i \in DOMAIN weatherData.stations :
                    IsRainyStation(weatherData, weatherData.stations[i])})
    IN  IF Len(rainyStations) = 0 THEN Outcome("elsewhere", Null, Null)
        ELSE
        LET threats == Threats(rainyStations, userLocation, weatherData)
        IN  IF Len(threats) > 0
            THEN LET closestThreat == SortThreats(threats)[1]
                 IN  IF closestThreat.timeToReach <= VeryCloseMinutes
                     THEN Outcome("very close", closestThreat.stationName,
                                  closestThreat.timeToReach)
                     ELSE Outcome("moving your way", closestThreat.stationName,
                                  closestThreat.timeToReach)
            ELSE Outcome("not heading", Null, Null)

\* the reference point of the predictions tried
PredictUser == Loc(20)

\* where a station may lie: nowhere, 10 km or 5 km north, 10 km south
PredictPlaces == {Undefined, Loc(30), Loc(25), Loc(10)}

\* the rainfall a station may report: 2.9 mm, 3 mm
PredictRain == {[value |-> 29], [value |-> 30]}

\* a wind vector along an axis
AxisVector(velocityX, velocityY, directionDeg) ==
    [velocityX |-> velocityX, velocityY |-> velocityY,
     magnitude |-> Norm(velocityX, velocityY), directionDeg |-> directionDeg]

\* the wind vectors a station may have: none, still air, 40 km/h, 39 km/h,
\* 80 km/h and 120 km/h towards the south, 40 km/h towards the north
PredictVectors ==
    {Undefined, AxisVector(0, 0, 0),
     AxisVector(0, 0 - 40000, 270), AxisVector(0, 0 - 39000, 270),
     AxisVector(0, 0 - 80000, 270), AxisVector(0, 0 - 120000, 270),
     AxisVector(0, 40000, 90)}

\* the longest station list of a prediction tried
MaxRainy == 2

\* the snapshot with station i of kind kinds[i]
PredictData(kinds, flag) ==
    [stations |-> [i \in DOMAIN kinds |->
                      [id |-> i, deviceId |-> i, name |-> i,
                       labelLocation |-> kinds[i].place]],
     rainfallMap |-> [i \in {j \in DOMAIN kinds : kinds[j].rain # Undefined} |->
                         kinds[i].rain.value],
     windVectors |-> [i \in {j \in DOMAIN kinds : kinds[j].vector # Undefined} |->
                         kinds[i].vector],
     significantRainDetected |-> flag]

PredictInputs ==
    {[fn |-> "predict", userLocation |-> PredictUser, weatherData |-> PredictData(kinds, flag)] :
        kinds \in UNION {[1..n -> [place : PredictPlaces, rain : PredictRain,
                                   vector : PredictVectors]] : n \in 0..MaxRainy},
        flag \in BOOLEAN}

Predict ==
    /\ arg.fn = "predict" /\ out = NoArg
    /\ out' = calculateRainPrediction(arg.userLocation, arg.weatherData)
    /\ UNCHANGED <<arg, weatherVars, clockVars, engineVars>>

-----------------------------------------------------------------------------
(* convertDegreesToCardinal, over whole degrees.                           *)

\* a % b of JavaScript for b > 0: the remainder takes the dividend's sign
JsRem(a, b) == IF a >= 0 THEN a % b ELSE 0 - ((0 - a) % b)

directions ==
    <<"N", "NNE", "NE", "ENE", "E", "ESE", "SE", "SSE",
      "S", "SSW", "SW", "WSW", "W", "WNW", "NW", "NNW">>

\* Math.round(r / 22.5) = floor(r / 22.5 + 1/2) = floor((4r + 45) / 90);
\* directions[index] is the label, or undefined off the array
convertDegreesToCardinal(deg) ==
    LET r == JsRem(deg, FullTurnDeg)
        index == JsRem((4 * r + 45) \div 90, Len(directions))
    IN  IF index \in 0..(Len(directions) - 1) THEN [label |-> directions[index + 1]]
        ELSE Undefined

\* the degrees tried: from -MaxDegrees to MaxDegrees
MaxDegrees == 400

\* the label of an angle and of the same angle one turn on
Convert ==
    /\ arg.fn = "cardinal" /\ out = NoArg
    /\ out' = [cardinal |-> convertDegreesToCardinal(arg.deg),
               turned |-> convertDegreesToCardinal(arg.deg + FullTurnDeg)]
    /\ UNCHANGED <<arg, weatherVars, clockVars, engineVars>>

-----------------------------------------------------------------------------
(* From a wind reading to the prediction: the vector convertToWindVector   *)
(* builds for a station, then calculateRainPrediction on the snapshot that *)
(* holds it.                                                               *)

\* the wind speeds tried, in whole knots: 1..MaxKnots
MaxKnots == 15

\* the snapshot of one station at 3 mm with the vector given
WindData(place, vector) ==
    PredictData(<<[place |-> place,
                   rain |-> [value |-> SIGNIFICANT_RAIN_THRESHOLD_MM],
                   vector |-> vector]>>, TRUE)

Blow ==
    /\ arg.fn = "wind" /\ out = NoArg
    /\ LET vector == convertToWindVector(arg.speedKnots, arg.directionDeg)
       IN  out' = [vector |-> vector,
                   prediction |-> calculateRainPrediction(PredictUser,
                                                          WindData(arg.place, vector))]
    /\ UNCHANGED <<arg, weatherVars, clockVars, engineVars>>

-----------------------------------------------------------------------------
(* The specifications.                                                     *)

\* the acquisition and its cache, one call at a time; the clock moves by
\* 1 ms or by 2.5 minutes, and the caller gives no reference location, a
\* point 5 km from S1 (with the default configuration or with a radius of
\* 1 km), or a point on the equator 10 km from S1
Init ==
    /\ now \in StartTimes
    /\ ticks = 0
    /\ storage = [k \in StorageKeys |-> NoItem]
    /\ call = [c \in Calls |-> IdleCall]
    /\ ClockIdle /\ EngineIdle /\ PureIdle

Next ==
    \/ \E d \in {1, 150000} : Tick(d)
    \/ \E c \in SerialCalls, f \in BOOLEAN, u \in {Undefined, Loc(5), Loc(0)} :
          Call(c, f, u, DEFAULT_CONFIG)
    \/ \E c \in SerialCalls, f \in BOOLEAN :
          Call(c, f, Loc(5), [radiusKm |-> 1, maxStations |-> 1, minStations |-> 0])
    \/ \E c \in SerialCalls, res \in RainResponses, w \in BOOLEAN : RainfallReply(c, res, w)
    \/ \E c \in SerialCalls, res \in WindSpeedResponses, v \in BOOLEAN, w \in BOOLEAN :
          WindSpeedReply(c, res, v, w)
    \/ \E c \in SerialCalls, res \in WindDirResponses, v \in BOOLEAN, w \in BOOLEAN :
          WindDirReply(c, res, v, w)
    \/ \E c \in SerialCalls : Settle(c)

Spec == Init /\ [][Next]_vars

\* getNext5MinMark over a range of instants
InitClock ==
    /\ tIn \in ClockInputs /\ tOut = NotComputed
    /\ now = 0 /\ ticks = 0
    /\ storage = [k \in StorageKeys |-> NoItem]
    /\ call = [c \in Calls |-> IdleCall]
    /\ EngineIdle
    /\ PureIdle

SpecClock == InitClock /\ [][ComputeExpiry]_vars

\* the distance engine, on a machine of 1 or 2 cores (navigator
\* .hardwareConcurrency), given lists of 0, 1 or 21 located stations
InitEngine ==
    /\ \E cores \in {1, 2} :
          eng = [workers |-> 0, isInitialized |-> FALSE, cpuCores |-> cores,
                 messageId |-> 0, pendingRequests |-> {}]
    /\ req = [id \in MessageIds |-> UnusedRequest]
    /\ calc = [k \in CalcIds |-> IdleCalc]
    /\ ClockIdle
    /\ PureIdle
    /\ now = 0 /\ ticks = 0
    /\ storage = [k \in StorageKeys |-> NoItem]
    /\ call = [c \in Calls |-> IdleCall]

NextEngine ==
    \/ \E created \in 0..PoolCap : initialize(created)
    \/ \E k \in CalcIds, n \in {0, 1, 21} : calculateDistancesParallel(k, n)
    \/ \E id \in MessageIds, type \in {"success", "error"} : WorkerAnswers(id, type)
    \/ \E id \in MessageIds : OnMessage(id)
    \/ \E id \in MessageIds : Timeout(id)
    \/ terminate
    \/ \E k \in CalcIds : Returned(k)

SpecEngine == InitEngine /\ [][NextEngine]_vars

\* the distance engine while terminate() is never called: a timer that was
\* set with setTimeout fires; nothing obliges a worker to answer
NextEngineLive ==
    \/ \E created \in 0..PoolCap : initialize(created)
    \/ \E k \in CalcIds, n \in {0, 1, 21} : calculateDistancesParallel(k, n)
    \/ \E id \in MessageIds, type \in {"success", "error"} : WorkerAnswers(id, type)
    \/ \E id \in MessageIds : OnMessage(id)
    \/ \E id \in MessageIds : Timeout(id)
    \/ \E k \in CalcIds : Returned(k)

SpecEngineLive ==
    /\ InitEngine
    /\ [][NextEngineLive]_vars
    /\ WF_vars(\E id \in MessageIds : Timeout(id))

\* every other component left alone
RestIdle ==
    /\ now = 0 /\ ticks = 0
    /\ storage = [k \in StorageKeys |-> NoItem]
    /\ call = [c \in Calls |-> IdleCall]
    /\ ClockIdle
    /\ EngineIdle

\* the two paths of the distance engine on the same input
InitPaths == arg \in PathInputs /\ out = NoArg /\ RestIdle

SpecPaths == InitPaths /\ [][ComputeDistances]_vars

\* the proximity filter on its own
InitFilter == arg \in FilterInputs /\ out = NoArg /\ RestIdle

SpecFilter == InitFilter /\ [][ApplyFilter]_vars

\* the prediction on its own
InitPredict == arg \in PredictInputs /\ out = NoArg /\ RestIdle

SpecPredict == InitPredict /\ [][Predict]_vars

\* the acquisition, started over a localStorage whose cache record cannot
\* be read
InitCorrupt ==
    /\ now \in StartTimes
    /\ ticks = 0
    /\ storage = [k \in StorageKeys |-> IF k = CACHE_KEY THEN Unparseable ELSE NoItem]
    /\ call = [c \in Calls |-> IdleCall]
    /\ ClockIdle /\ EngineIdle /\ PureIdle

SpecCorrupt == InitCorrupt /\ [][Next]_vars

\* two overlapping acquisitions: each slot makes one call, each reply goes
\* to the call that made the request, and the steps of the two calls
\* interleave in any order; the store of wind vectors takes every write
NextOverlap ==
    \/ Tick(150000)
    \/ \E c \in Calls, f \in BOOLEAN, u \in {Undefined, Loc(5)} :
          Call(c, f, u, DEFAULT_CONFIG)
    \/ \E c \in Calls, res \in RainResponses, w \in BOOLEAN : RainfallReply(c, res, w)
    \/ \E c \in Calls, res \in WindSpeedResponses, w \in BOOLEAN :
          WindSpeedReply(c, res, TRUE, w)
    \/ \E c \in Calls, res \in WindDirResponses, w \in BOOLEAN :
          WindDirReply(c, res, TRUE, w)

SpecOverlap == Init /\ [][NextOverlap]_vars

\* convertDegreesToCardinal on its own
InitCardinal ==
    /\ arg \in {[fn |-> "cardinal", deg |-> d] : d \in (0 - MaxDegrees)..MaxDegrees}
    /\ out = NoArg
    /\ RestIdle

SpecCardinal == InitCardinal /\ [][Convert]_vars

\* a wind reading, its vector and the prediction made with it
\* the 'from' bearings are north, east, south and west; the station lies
\* 5 km north or 5 km south of the reference, or on it
InitWind ==
    /\ arg \in {[fn |-> "wind", speedKnots |-> s, directionDeg |-> d, place |-> p] :
                    s \in 1..MaxKnots, d \in {0, 90, HalfTurnDeg, 270},
                    p \in {Loc(25), Loc(15), PredictUser}}
    /\ out = NoArg
    /\ RestIdle

SpecWind == InitWind /\ [][Blow]_vars


-----------------------------------------------------------------------------
(* Vocabulary of the properties, stated apart from the operators above.    *)

\* a response that carries data: code 0 and a data object
IsOk(res) == res.kind = "json" /\ res.code = 0 /\ res.data # Null

\* a fetch that failed: transport error, code # 0, or no data
IsFailure(res) == res.kind = "reject" \/ (res.kind = "json" /\ ~IsOk(res))

\* the (stationId, value) pairs of the latest reading of an ok response
LatestItems(res) ==
    IF res.data.readings = << >> THEN {}
    ELSE {res.data.readings[1].data[i] : i \in DOMAIN res.data.readings[1].data}

OneMillimetre == 10
FiveMinutesMs == 5 * 60 * 1000

\* slot c made requests: it did not answer from the cache
Uncached(c) == call[c].pc \in {"rain", "wind", "rejected"} \/
               (call[c].pc = "returned" /\ call[c].rainResponse # NoResponse)

\* this step is slot c entering fetchWeatherData
Enters(c) == call[c].pc = "idle" /\ call'[c].pc # "idle"

\* this step is slot c completing an acquisition with a snapshot
Completes(c) == call[c].pc \in {"rain", "wind"} /\ call'[c].pc = "returned"

\* the map m holds only pairs of the response's latest reading and, when
\* `whole`, a value for each of its stations
BuiltFrom(m, res, whole) ==
    /\ \A k \in DOMAIN m : \E it \in LatestItems(res) : it.stationId = k /\ it.value = m[k]
    /\ whole => \A it \in LatestItems(res) : it.stationId \in DOMAIN m

(* C1: a non-forced call made while the cache holds an entry with          *)
(* now <= expiry returns exactly the cached snapshot, leaves the entry in  *)
(* place and issues no request to any of the three endpoints.              *)
C1_CacheHitNoNetwork ==
    [][\A c \in Calls :
        /\ (Enters(c) /\ ~call'[c].forceRefresh /\ storage[CACHE_KEY] # NoItem
               /\ now <= storage[CACHE_KEY].expiry)
            => /\ call'[c].pc = "returned"
               /\ call'[c].result = storage[CACHE_KEY].data
               /\ call'[c].requests = NoRequests
               /\ storage' = storage
        /\ (call[c].pc = "returned" /\ call'[c].pc = "returned")
            => call'[c].requests = call[c].requests]_vars

C1_Witness ==
    \E c \in Calls :
        /\ call[c].pc = "returned" /\ ~call[c].forceRefresh
        /\ call[c].requests = NoRequests
        /\ storage[CACHE_KEY] # NoItem /\ storage[CACHE_KEY].expiry = now

(* C2: when every station of the latest rainfall batch is below 1 mm, the  *)
(* acquisition requests neither wind endpoint and returns a snapshot whose *)
(* rain flag is false and whose three wind maps are empty.                 *)
C2_NoRainNoWind ==
    \A c \in Calls :
        (IsOk(call[c].rainResponse)
            /\ \A it \in LatestItems(call[c].rainResponse) : it.value < OneMillimetre)
        => /\ call[c].requests.wind_speed = 0
           /\ call[c].requests.wind_direction = 0
           /\ call[c].pc = "returned"
           /\ call[c].result.significantRainDetected = FALSE
           /\ call[c].result.windSpeedMap = EmptyMap
           /\ call[c].result.windDirectionMap = EmptyMap
           /\ call[c].result.windVectors = EmptyMap

C2_Witness ==
    \E c \in Calls :
        /\ IsOk(call[c].rainResponse)
        /\ \E it \in LatestItems(call[c].rainResponse) : it.value > 0
        /\ \A it \in LatestItems(call[c].rainResponse) : it.value < OneMillimetre
        /\ call[c].pc = "returned"

(* C3: a wind endpoint is requested only after the rainfall response of    *)
(* the same acquisition has arrived with a station at or above 1 mm.       *)
C3_WindAfterRainDecision ==
    \A c \in Calls :
        (call[c].requests.wind_speed > 0 \/ call[c].requests.wind_direction > 0)
        => /\ call[c].requests.rainfall > 0
           /\ IsOk(call[c].rainResponse)
           /\ \E it \in LatestItems(call[c].rainResponse) : it.value >= OneMillimetre

C3_Witness ==
    \E c \in Calls :
        /\ call[c].pc = "wind"
        /\ call[c].requests.wind_speed > 0 /\ call[c].requests.wind_direction > 0

C5_FailureWritesNothing ==
    [][\A c \in Calls :
        /\ (call'[c] # call[c] /\ ~Completes(c))
            => storage'[CACHE_KEY] \in {storage[CACHE_KEY], NoItem}
        /\ call'[c].pc = "rejected"
            => (~call'[c].wrote /\ storage'[CACHE_KEY] = storage[CACHE_KEY])]_vars

C5_Witness ==
    \E c \in Calls :
        /\ call[c].pc = "rejected"
        /\ IsOk(call[c].rainResponse)
        /\ IsFailure(call[c].windSpeed) \/ IsFailure(call[c].windDir)
        /\ storage[CACHE_KEY] # NoItem

(* C6: no snapshot is returned when a wind fetch failed: a returned        *)
(* snapshot has either no wind response behind it and empty wind maps, or  *)
(* two successful wind responses of its own acquisition and wind maps      *)
(* built from exactly those.                                               *)
C6_NoPartialWind ==
    \A c \in Calls :
        /\ (IsFailure(call[c].windSpeed) \/ IsFailure(call[c].windDir))
            => call[c].pc \in {"wind", "rejected"}
        /\ (call[c].pc = "returned" /\ call[c].rainResponse # NoResponse)
            => \/ /\ call[c].windSpeed = NoResponse /\ call[c].windDir = NoResponse
                  /\ call[c].result.windSpeedMap = EmptyMap
                  /\ call[c].result.windDirectionMap = EmptyMap
                  /\ call[c].result.windVectors = EmptyMap
               \/ /\ IsOk(call[c].windSpeed) /\ IsOk(call[c].windDir)
                  /\ BuiltFrom(call[c].result.windSpeedMap, call[c].windSpeed,
                               call[c].userLocation = Undefined)
                  /\ BuiltFrom(call[c].result.windDirectionMap, call[c].windDir,
                               call[c].userLocation = Undefined)
                  /\ DOMAIN call[c].result.windVectors
                        \subseteq (DOMAIN call[c].result.windSpeedMap
                                      \cap DOMAIN call[c].result.windDirectionMap)

C6_Witness ==
    \E c \in Calls :
        /\ call[c].pc = "rejected"
        /\ IsOk(call[c].windSpeed) /\ IsFailure(call[c].windDir)

(* C7: a successful uncached acquisition whose storage write succeeds      *)
(* leaves in the cache slot the snapshot it returns, whatever was there,   *)
(* with an expiry on the next 5-minute mark after the write; a non-forced  *)
(* call that finds the entry in time returns that stored snapshot.         *)
C7_CompletionOverwritesCache ==
    [][\A c \in Calls :
        /\ (Completes(c) /\ call'[c].wrote)
            => /\ storage'[CACHE_KEY] # NoItem
               /\ SameSnapshot(storage'[CACHE_KEY].data, call'[c].result)
               /\ storage'[CACHE_KEY].expiry > now
               /\ storage'[CACHE_KEY].expiry <= now + FiveMinutesMs
               /\ storage'[CACHE_KEY].expiry % FiveMinutesMs = 0
        /\ (Enters(c) /\ call'[c].pc = "returned")
            => /\ storage[CACHE_KEY] # NoItem
               /\ call'[c].result = storage[CACHE_KEY].data]_vars

C7_Witness ==
    \E c \in Calls :
        /\ call[c].pc = "returned" /\ call[c].forceRefresh /\ call[c].wrote
        /\ \E i \in DOMAIN call[c].result.stations :
              call[c].result.stations[i].labelLocation = Undefined
        /\ SameSnapshot(storage[CACHE_KEY].data, call[c].result)

(* C8: the expiry getNext5MinMark computes at an instant t is on a minute  *)
(* that is a multiple of 5, with seconds and milliseconds 0, and           *)
(* t < expiry <= t + 5 min; 10:02:30 gives 10:05:00 and 10:05:00 gives     *)
(* 10:10:00.                                                               *)
C8_NextFiveMinuteMark ==
    tOut # NotComputed
    => /\ ((tOut \div 60000) % 60) % 5 = 0
       /\ (tOut \div 1000) % 60 = 0
       /\ tOut % 1000 = 0
       /\ tIn < tOut
       /\ tOut <= tIn + FiveMinutesMs
       /\ tIn = 36150000 => tOut = 36300000
       /\ tIn = 36300000 => tOut = 36600000

C8_Witness == tIn = 36300000 /\ tOut = 36600000

(* C9: a cache read returns the stored snapshot exactly when an entry      *)
(* exists and now <= expiry; a read after the expiry returns nothing and   *)
(* removes the entry; the slot then stays empty until a successful write.  *)
C9_ReadExpiryEvict ==
    [][/\ \A c \in Calls :
            (Enters(c) /\ ~call'[c].forceRefresh)
            => IF storage[CACHE_KEY] # NoItem /\ now <= storage[CACHE_KEY].expiry
               THEN call'[c].pc = "returned"
                    /\ call'[c].result = storage[CACHE_KEY].data
                    /\ storage'[CACHE_KEY] = storage[CACHE_KEY]
               ELSE call'[c].pc = "rain" /\ storage'[CACHE_KEY] = NoItem
       /\ (storage[CACHE_KEY] = NoItem /\ storage'[CACHE_KEY] # NoItem)
            => \E c \in Calls : Completes(c) /\ call'[c].wrote]_vars

C9_Witness ==
    \E c \in Calls : call[c].pc = "rain" /\ call[c].evicted /\ storage[CACHE_KEY] = NoItem


(* C10: a request that was pending when terminate() was called is settled  *)
(* as rejected, at the latest when its timeout has fired, and no           *)
(* calculateDistancesParallel invocation stays suspended on requests that  *)
(* nothing can settle any more.                                            *)
C10_ShutdownRejectsPending ==
    /\ \A id \in MessageIds :
          (req[id].cut /\ req[id].timer = "fired") => req[id].promise = "rejected"
    /\ \A k \in CalcIds :
          calc[k].state = "awaiting"
          => \E id \in calc[k].reqs : req[id].timer = "armed"

(* C11: every value calculateDistancesParallel returns holds exactly one    *)
(* entry per located input station, in input order; when a dispatched      *)
(* request was rejected (worker error or timeout) the value is the         *)
(* synchronous result over the whole input, never the resolved shards      *)
(* alone.                                                                  *)
C11_WholeResultOrFallback ==
    \A k \in CalcIds :
        calc[k].state = "done" =>
            /\ Len(calc[k].result) = calc[k].n
            /\ \A i \in 1..calc[k].n :
                  /\ calc[k].result[i].station.id = i
                  /\ calc[k].result[i].station.labelLocation # Undefined
                  /\ calc[k].result[i].distance \in Nat
            /\ calc[k].via \in {"sync", "workers", "empty"}
            /\ (\E id \in calc[k].reqs : req[id].promise = "rejected")
                  => calc[k].via = "sync"
            /\ calc[k].via = "workers"
                  => \A id \in calc[k].reqs : req[id].promise = "resolved"

C11_Witness ==
    \E k \in CalcIds :
        /\ calc[k].state = "done" /\ calc[k].via = "sync"
        /\ calc[k].n > SingleWorkerMax
        /\ \E a, b \in calc[k].reqs :
              req[a].promise = "resolved" /\ req[b].promise = "rejected"

(* C13: the workers array holds either no worker or exactly                *)
(* min(hardware parallelism, 8) workers, and never more than 8.            *)
C13_PoolSizeFixed ==
    /\ eng.workers \in {0, IF eng.cpuCores <= 8 THEN eng.cpuCores ELSE 8}
    /\ eng.workers <= 8

\* an engine with no worker, not initialized, nothing pending
Released(e) == e.workers = 0 /\ ~e.isInitialized /\ e.pendingRequests = {}

(* C14: terminate() leaves the engine with no worker, not initialized and  *)
(* with no pending request; on such an engine it changes nothing; and a    *)
(* calculateDistancesParallel call on such an engine returns at once by    *)
(* the synchronous path.                                                   *)
C14_TerminateIdempotent ==
    [][/\ terminate => /\ Released(eng')
                       /\ Released(eng) => (eng' = eng /\ req' = req)
       /\ \A k \in CalcIds :
             (Released(eng) /\ calc[k].state = "idle" /\ calc'[k].state # "idle")
             => (calc'[k].state = "done" /\ calc'[k].via = "sync" /\ req' = req)]_vars

C14_Witness ==
    /\ Released(eng) /\ eng.messageId > 0
    /\ \E id \in MessageIds : req[id].cut
    /\ \E k \in CalcIds :
          calc[k].state = "done" /\ calc[k].via = "sync" /\ calc[k].reqs = {}

(* C12: for every station list and reference point the worker path of      *)
(* calculateDistancesParallel, single-worker or sharded, returns what      *)
(* calculateDistancesSync returns: the same stations in the same order,    *)
(* each with the same distance.                                            *)
C12_WorkerPathEqualsSync ==
    (arg.fn = "distances" /\ out # NoArg) =>
        /\ Len(out.worker) = Len(out.sync)
        /\ \A i \in 1..Len(out.sync) :
              /\ out.worker[i].station = out.sync[i].station
              /\ out.worker[i].distance = out.sync[i].distance

C12_Witness ==
    /\ arg.fn = "distances" /\ out # NoArg
    /\ arg.workers = 8
    /\ Len(out.worker) = 17 /\ Len(arg.stations) = 25
    /\ \E i, j \in 1..Len(out.worker) :
          i < j /\ out.worker[i].distance > out.worker[j].distance

\* the filter has been applied to its arguments
Filtered == arg.fn = "filter" /\ out # NoArg

\* how many stations of a list have a location
LocatedCount(stations) ==
    Cardinality({i \in DOMAIN stations : stations[i].labelLocation # Undefined})

\* kilometres between a located station and the reference latitude
KmFrom(lat, st) ==
    IF st.labelLocation.latitude >= lat THEN st.labelLocation.latitude - lat
    ELSE lat - st.labelLocation.latitude

(* C15: filterNearbyStations returns at most maxStations stations, for any  *)
(* station list, reference location and configuration, minStations above   *)
(* maxStations included.                                                   *)
C15_AtMostMaxStations ==
    Filtered => Len(out.stations) <= arg.config.maxStations

(* C16: when at least minStations stations of the list have a location,    *)
(* filterNearbyStations returns at least minStations stations, whatever    *)
(* the radius.                                                             *)
C16_AtLeastMinStations ==
    (Filtered /\ LocatedCount(arg.stations) >= arg.config.minStations)
        => Len(out.stations) >= arg.config.minStations

C16_Witness ==
    /\ Filtered /\ arg.userLat = 5
    /\ arg.config.radiusKm = 1 /\ arg.config.minStations = 3
    /\ LocatedCount(arg.stations) = 3 /\ Len(arg.stations) = 3
    /\ Len(out.stations) = 3

(* C17: the list filterNearbyStations returns for a reference location is  *)
(* in non-decreasing order of distance to the reference, and stations at    *)
(* equal distance keep their order of the input list.                      *)
C17_SortedStable ==
    Filtered =>
        /\ \A i \in 1..Len(out.stations) : out.stations[i].labelLocation # Undefined
        /\ \A i, j \in 1..Len(out.stations) :
              i < j =>
                /\ KmFrom(arg.userLat, out.stations[i]) <= KmFrom(arg.userLat, out.stations[j])
                /\ KmFrom(arg.userLat, out.stations[i]) = KmFrom(arg.userLat, out.stations[j])
                      => out.stations[i].id < out.stations[j].id

\* slot c has built and returned a snapshot of its own
Produced(c) == call[c].pc = "returned" /\ call[c].rainResponse # NoResponse

\* the ids of a station list
IdsOf(stations) == {stations[i].id : i \in DOMAIN stations}

(* C18: in a snapshot built for a reference location every key of the      *)
(* rainfall, wind-speed, wind-direction and wind-vector maps is the id of  *)
(* a station of the snapshot's station list; in a snapshot built without   *)
(* one the maps hold every entry of the latest batches unchanged.          *)
C18_MapsKeyedByStations ==
    \A c \in Calls :
        Produced(c) =>
            LET d == call[c].result IN
            IF call[c].userLocation # Undefined
            THEN /\ DOMAIN d.rainfallMap \subseteq IdsOf(d.stations)
                 /\ DOMAIN d.windSpeedMap \subseteq IdsOf(d.stations)
                 /\ DOMAIN d.windDirectionMap \subseteq IdsOf(d.stations)
                 /\ DOMAIN d.windVectors \subseteq IdsOf(d.stations)
            ELSE /\ BuiltFrom(d.rainfallMap, call[c].rainResponse, TRUE)
                 /\ call[c].windSpeed # NoResponse
                       => /\ BuiltFrom(d.windSpeedMap, call[c].windSpeed, TRUE)
                          /\ BuiltFrom(d.windDirectionMap, call[c].windDir, TRUE)

C18_Witness ==
    \E c \in Calls :
        /\ Produced(c) /\ call[c].userLocation # Undefined
        /\ call[c].requests.wind_speed = 1
        /\ IdsOf(call[c].result.stations) = {"S1"}
        /\ DOMAIN call[c].result.rainfallMap = {"S1"}
        /\ \E it \in LatestItems(call[c].rainResponse) : it.stationId = "S2"
        /\ \E it \in LatestItems(call[c].windSpeed) : it.stationId = "S2" /\ it.value > 0

\* the location a feed carries for a station id, or undefined
FeedLocation(res, id) ==
    LET raw == res.data.stations
        idx == {i \in DOMAIN raw :
                   raw[i].id = id /\ (raw[i].labelLocation # Undefined
                                         \/ raw[i].location # Undefined)}
    IN  IF idx = {} THEN Undefined
        ELSE LET r == raw[CHOOSE i \in idx : \A j \in idx : i <= j]
             IN  IF r.labelLocation # Undefined THEN r.labelLocation ELSE r.location

\* the feeds of slot c that returned data, in the order rainfall, wind
\* speed, wind direction
FeedsOf(c) ==
    IF call[c].windSpeed = NoResponse THEN <<call[c].rainResponse>>
    ELSE <<call[c].rainResponse, call[c].windSpeed, call[c].windDir>>

\* the location of the earliest feed that carries one for the id
FirstLocation(feeds, id) ==
    LET idx == {i \in DOMAIN feeds : FeedLocation(feeds[i], id) # Undefined}
    IN  IF idx = {} THEN Undefined
        ELSE FeedLocation(feeds[CHOOSE i \in idx : \A j \in idx : i <= j], id)

(* C19: the merged station list has exactly one station per id that        *)
(* appears in a feed that returned data, and the station's location is the *)
(* one of the earliest feed, in the order rainfall, wind speed, wind       *)
(* direction, that carries a location for the id.                          *)
C19_FirstLocationWins ==
    \A c \in Calls :
        (Produced(c) /\ call[c].userLocation = Undefined) =>
            LET merged == call[c].result.stations
                feeds == FeedsOf(c)
            IN  /\ IdsOf(merged) =
                      UNION {IdsOf(feeds[i].data.stations) : i \in DOMAIN feeds}
                /\ \A i, j \in DOMAIN merged : merged[i].id = merged[j].id => i = j
                /\ \A i \in DOMAIN merged :
                      merged[i].labelLocation = FirstLocation(feeds, merged[i].id)

C19_Witness ==
    \E c \in Calls :
        /\ Produced(c) /\ call[c].userLocation = Undefined
        /\ call[c].requests.wind_direction = 1
        /\ \E i, j, k \in DOMAIN call[c].result.stations :
              LET merged == call[c].result.stations
              IN  /\ merged[i].id = "S1" /\ merged[i].labelLocation = Loc(10)
                  /\ merged[j].id = "S2" /\ merged[j].labelLocation = Loc(40)
                  /\ merged[k].id = "S3" /\ merged[k].labelLocation = Loc(70)

\* the prediction has been computed
Predicted == arg.fn = "predict" /\ out # NoArg

\* station st of the snapshot is a candidate: located, at 3 mm or more,
\* with a wind vector of positive magnitude
Candidate(data, st) ==
    /\ st.labelLocation # Undefined
    /\ st.id \in DOMAIN data.rainfallMap /\ data.rainfallMap[st.id] >= 30
    /\ st.id \in DOMAIN data.windVectors /\ data.windVectors[st.id].magnitude > 0

\* kilometres from the station to the reference point, northwards
NorthToUser(user, st) == user.latitude - st.labelLocation.latitude

\* the dot product of the wind (m/h) with the station-to-reference vector (km)
Closing(data, user, st) == data.windVectors[st.id].velocityY * NorthToUser(user, st)

\* the unrounded time to arrive, 60 * d / (closing / (1000 * d)) minutes,
\* is at most 15
WithinWindow(data, user, st) ==
    /\ Closing(data, user, st) > 0
    /\ 60 * 1000 * NorthToUser(user, st) * NorthToUser(user, st)
          <= 15 * Closing(data, user, st)

(* C20: a candidate is a threat iff its dot product is positive and its    *)
(* unrounded time to arrive is at most 15 minutes: a station is named only *)
(* if it is such a candidate, some station is named whenever one exists,   *)
(* and a rainy station 10 km due north under a wind of 40 km/h towards the *)
(* south, alone in the snapshot, is reported with an ETA of 15 minutes.    *)
C20_ThreatWithinFifteen ==
    (Predicted /\ arg.weatherData.significantRainDetected) =>
        LET data == arg.weatherData
            user == arg.userLocation
            threats == {i \in DOMAIN data.stations :
                           Candidate(data, data.stations[i])
                               /\ WithinWindow(data, user, data.stations[i])}
            named == out.kind \in {"very close", "moving your way"}
        IN  /\ named <=> threats # {}
            /\ named => \E i \in threats : data.stations[i].name = out.stationName
            /\ named => out.minutes <= 15
            /\ (Len(data.stations) = 1 /\ Candidate(data, data.stations[1])
                   /\ NorthToUser(user, data.stations[1]) = 0 - 10
                   /\ data.windVectors[1].velocityY = 0 - 40000)
                => (out.kind = "moving your way" /\ out.minutes = 15)

C20_Witness ==
    /\ Predicted /\ arg.weatherData.significantRainDetected
    /\ Len(arg.weatherData.stations) = 2
    /\ arg.weatherData.stations[1].labelLocation = Loc(30)
    /\ arg.weatherData.stations[2].labelLocation = Loc(30)
    /\ Candidate(arg.weatherData, arg.weatherData.stations[1])
    /\ Candidate(arg.weatherData, arg.weatherData.stations[2])
    /\ arg.weatherData.windVectors[1].velocityY = 0 - 39000
    /\ arg.weatherData.windVectors[2].velocityY = 0 - 40000
    /\ out.kind = "moving your way" /\ out.stationName = 2 /\ out.minutes = 15

\* the candidates of a snapshot, by their position in the station list
Candidates(data) ==
    {i \in DOMAIN data.stations : Candidate(data, data.stations[i])}

\* the outcome names a source station
Names == out.kind \in {"very close", "moving your way"}

(* C21: with the rain flag true and at least one candidate, when no        *)
(* candidate's wind vector has a positive dot product with the             *)
(* station-to-reference vector the outcome is 'not heading towards your    *)
(* location' and names no station.                                         *)
C21_AwayIsNoThreat ==
    (Predicted /\ arg.weatherData.significantRainDetected
        /\ Candidates(arg.weatherData) # {}
        /\ \A i \in Candidates(arg.weatherData) :
              Closing(arg.weatherData, arg.userLocation, arg.weatherData.stations[i]) <= 0)
    => (out.kind = "not heading" /\ out.stationName = Null)

C21_Witness ==
    /\ Predicted /\ arg.weatherData.significantRainDetected
    /\ Len(arg.weatherData.stations) = 1
    /\ Candidates(arg.weatherData) = {1}
    /\ arg.weatherData.stations[1].labelLocation = Loc(30)
    /\ arg.weatherData.windVectors[1].velocityY = 40000
    /\ out.kind = "not heading"

\* the candidates that arrive within the window
ThreatSet(data, user) ==
    {i \in Candidates(data) : WithinWindow(data, user, data.stations[i])}

\* threat i arrives no later than threat j: 60000 d_i^2 / c_i <= 60000 d_j^2 / c_j
NoLater(data, user, i, j) ==
    NorthToUser(user, data.stations[i]) * NorthToUser(user, data.stations[i])
        * Closing(data, user, data.stations[j])
    <= NorthToUser(user, data.stations[j]) * NorthToUser(user, data.stations[j])
        * Closing(data, user, data.stations[i])

(* C22: the station named is, among the qualifying threats, one with the   *)
(* smallest time to arrive and, among those with that same time, one with  *)
(* the smallest distance to the reference.                                 *)
C22_EarliestThenNearest ==
    (Predicted /\ Names) =>
        LET data == arg.weatherData
            user == arg.userLocation
        IN  \E i \in ThreatSet(data, user) :
                /\ data.stations[i].name = out.stationName
                /\ \A j \in ThreatSet(data, user) :
                      /\ NoLater(data, user, i, j)
                      /\ NoLater(data, user, j, i)
                            => Norm(0, NorthToUser(user, data.stations[i]))
                                 <= Norm(0, NorthToUser(user, data.stations[j]))

(* C23: when a source station is named the ETA is a whole number of        *)
(* minutes from 0 to 15; the 'very close' wording goes with an ETA of at   *)
(* most 5 and the 'moving your way' wording with an ETA from 6 to 15.      *)
C23_EtaAndWording ==
    (Predicted /\ Names) =>
        /\ out.minutes \in 0..15
        /\ out.kind = "very close" <=> out.minutes <= 5
        /\ out.kind = "moving your way" <=> out.minutes \in 6..15

C23_Witness ==
    /\ Predicted /\ out.kind = "very close" /\ out.minutes = 5
    /\ Len(arg.weatherData.stations) = 2
    /\ ThreatSet(arg.weatherData, arg.userLocation) = {1, 2}

(* C24: with the rain flag true a station is named only if it has a        *)
(* location, a rainfall of 3 mm or more and a wind vector of positive      *)
(* magnitude; when no station has all three the outcome is the 'rain       *)
(* detected elsewhere' one.                                                *)
C24_OnlyCandidatesNamed ==
    (Predicted /\ arg.weatherData.significantRainDetected) =>
        LET data == arg.weatherData IN
        /\ Names => \E i \in DOMAIN data.stations :
                       /\ data.stations[i].name = out.stationName
                       /\ data.stations[i].labelLocation # Undefined
                       /\ i \in DOMAIN data.rainfallMap /\ data.rainfallMap[i] >= 30
                       /\ i \in DOMAIN data.windVectors
                       /\ data.windVectors[i].magnitude > 0
        /\ Candidates(data) = {} => out.kind = "elsewhere"
        /\ Candidates(data) # {} => out.kind # "elsewhere"

C24_Witness ==
    /\ Predicted /\ arg.weatherData.significantRainDetected
    /\ Len(arg.weatherData.stations) = 2
    /\ arg.weatherData.rainfallMap[1] = 29 /\ arg.weatherData.rainfallMap[2] = 30
    /\ arg.weatherData.stations[1].labelLocation = Loc(25)
    /\ arg.weatherData.stations[2].labelLocation = Loc(30)
    /\ 1 \in DOMAIN arg.weatherData.windVectors
    /\ arg.weatherData.windVectors[1].velocityY = 0 - 120000
    /\ out.kind = "moving your way" /\ out.stationName = 2

\* the README's threshold of significant rain, in tenths of a millimetre
ThreeMillimetres == 3 * OneMillimetre

(* C25: when every station of the latest rainfall batch is below 3 mm, the *)
(* acquisition requests neither the wind-speed nor the wind-direction      *)
(* endpoint.                                                               *)
C25_BelowThreeNoWind ==
    \A c \in Calls :
        (IsOk(call[c].rainResponse)
            /\ \A it \in LatestItems(call[c].rainResponse) : it.value < ThreeMillimetres)
        => /\ call[c].requests.wind_speed = 0
           /\ call[c].requests.wind_direction = 0

(* C26: a non-forced call that finds a cache record it cannot parse        *)
(* removes the record and goes on to request the rainfall endpoint; an     *)
(* acquisition is rejected only when one of its fetches failed, and one    *)
(* whose cache write failed still returns the snapshot built from its      *)
(* responses, the cache record left as it was.                             *)
C26_CacheFailuresNotFatal ==
    [][\A c \in Calls :
        /\ (Enters(c) /\ ~call'[c].forceRefresh /\ storage[CACHE_KEY] = Unparseable)
            => /\ call'[c].pc = "rain"
               /\ call'[c].requests.rainfall = 1
               /\ storage'[CACHE_KEY] = NoItem
        /\ (call[c].pc \in {"rain", "wind"} /\ call'[c].pc = "rejected")
            => \/ IsFailure(call'[c].rainResponse)
               \/ IsFailure(call'[c].windSpeed)
               \/ IsFailure(call'[c].windDir)
        /\ (Completes(c) /\ ~call'[c].wrote)
            => /\ call'[c].result # Null
               /\ BuiltFrom(call'[c].result.rainfallMap, call'[c].rainResponse, FALSE)
               /\ storage'[CACHE_KEY] = storage[CACHE_KEY]]_vars

C26_Witness ==
    \E c \in Calls :
        /\ ticks = 0 /\ call[c].evicted /\ ~call[c].forceRefresh
        /\ call[c].pc = "returned" /\ ~call[c].wrote
        /\ call[c].result # Null /\ call[c].result.significantRainDetected
        /\ storage[CACHE_KEY] = NoItem

\* convertDegreesToCardinal has been applied
Converted == arg.fn = "cardinal" /\ out # NoArg

\* the sixteen compass labels
CompassLabels == {[label |-> directions[i]] : i \in DOMAIN directions}

(* C27: convertDegreesToCardinal gives one of the sixteen compass labels   *)
(* for every degree value, negative ones and ones of 360 or more included, *)
(* and gives the same label for d and d + 360.                             *)
C27_CardinalTotalCyclic ==
    Converted => /\ out.cardinal \in CompassLabels
                 /\ out.cardinal = out.turned

\* the ids of the stations of a list that have a location
LocatedIds(stations) == {i \in DOMAIN stations : stations[i].labelLocation # Undefined}

\* `picked` are stations of `pool`, and no station of `pool` left out is
\* closer to the reference than one picked
NearestOf(picked, pool, lat, stations) ==
    /\ picked \subseteq pool
    /\ \A i \in picked, j \in pool \ picked :
          KmFrom(lat, stations[i]) <= KmFrom(lat, stations[j])

(* C28: for a reference location, when the stations within the radius,     *)
(* cut to maxStations, are fewer than minStations and at least minStations *)
(* stations have a location, the result is the minStations closest located *)
(* stations; in every other case it is the closest located stations within *)
(* the radius, cut to maxStations.                                         *)
C28_FloorWhenLocatedSuffice ==
    (Filtered /\ arg.userLat # 0) =>
        LET stations == arg.stations
            config == arg.config
            pool == LocatedIds(stations)
            within == {i \in pool : KmFrom(arg.userLat, stations[i]) <= config.radiusKm}
            capped == Min(Cardinality(within), config.maxStations)
            picked == IdsOf(out.stations)
        IN  IF capped < config.minStations /\ Cardinality(pool) >= config.minStations
            THEN /\ Len(out.stations) = config.minStations
                 /\ NearestOf(picked, pool, arg.userLat, stations)
            ELSE /\ Len(out.stations) = capped
                 /\ NearestOf(picked, within, arg.userLat, stations)

(* C29: in a snapshot an acquisition built, every station with a wind      *)
(* vector has a wind-speed reading above 0 and a wind-direction reading in *)
(* the latest batches of that acquisition, and its vector has a magnitude  *)
(* above 0; a station whose latest wind speed is 0 has no vector.          *)
C29_VectorsOnlyForMovingAir ==
    \A c \in Calls :
        (Produced(c) /\ call[c].result.windVectors # EmptyMap) =>
            LET d == call[c].result IN
            /\ IsOk(call[c].windSpeed) /\ IsOk(call[c].windDir)
            /\ \A k \in DOMAIN d.windVectors :
                  /\ \E it \in LatestItems(call[c].windSpeed) :
                         it.stationId = k /\ it.value > 0
                  /\ \E it \in LatestItems(call[c].windDir) : it.stationId = k
                  /\ d.windVectors[k].magnitude > 0
            /\ \A it \in LatestItems(call[c].windSpeed) :
                  it.value = 0 => it.stationId \notin DOMAIN d.windVectors

C29_Witness ==
    \E c \in Calls :
        /\ Produced(c) /\ call[c].userLocation = Undefined
        /\ DOMAIN call[c].result.windVectors = {"S1"}
        /\ \E it \in LatestItems(call[c].windSpeed) : it.stationId = "S2" /\ it.value = 0
        /\ \E it \in LatestItems(call[c].windDir) : it.stationId = "S2"

\* a wind reading has been turned into a vector and a prediction
Blown == arg.fn = "wind" /\ out # NoArg

\* the size of a component
Size(x) == IF x < 0 THEN 0 - x ELSE x

\* in the frame with x to the east and y to the north, vector v points
\* towards the compass bearing opposite to `from`
PointsAwayFrom(v, from) ==
    CASE from = 0 -> v.velocityY < 0 /\ Size(v.velocityX) < Size(v.velocityY)
      [] from = 90 -> v.velocityX < 0 /\ Size(v.velocityY) < Size(v.velocityX)
      [] from = HalfTurnDeg -> v.velocityY > 0 /\ Size(v.velocityX) < Size(v.velocityY)
      [] from = 270 -> v.velocityX > 0 /\ Size(v.velocityY) < Size(v.velocityX)

\* air at speedKnots covers the 5 km to the reference within 15 minutes
ArrivesInTime(speedKnots) ==
    60 * 1000 * 5 <= PREDICTION_TIME_MINUTES * speedKnots * MetresPerHourPerKnot

(* C30: the vector built from a reading points, with x to the east and y   *)
(* to the north, towards the compass bearing opposite to the 'from'        *)
(* bearing (wind from the east points west), and a rainy station due north *)
(* of the reference under a wind from the north fast enough to arrive      *)
(* within 15 minutes is reported as a threat.                              *)
C30_VectorOppositeToBearing ==
    Blown =>
        /\ PointsAwayFrom(out.vector, arg.directionDeg)
        /\ (arg.directionDeg = 0 /\ arg.place.latitude > PredictUser.latitude
                /\ ArrivesInTime(arg.speedKnots))
            => out.prediction.kind \in {"very close", "moving your way"}

(* C31: a candidate station lying exactly on the reference point has a dot *)
(* product of 0 and is passed over before the division by the distance:    *)
(* the outcome names no station; and whenever a station is named, so that  *)
(* the division was made, its distance to the reference is positive and    *)
(* its ETA a whole number of minutes from 0 to 15.                         *)
C31_NoDivisionByZeroDistance ==
    Blown =>
        /\ arg.place = PredictUser => out.prediction.kind = "not heading"
        /\ out.prediction.kind \in {"very close", "moving your way"}
            => /\ Size(arg.place.latitude - PredictUser.latitude) > 0
               /\ out.prediction.minutes \in 0..PREDICTION_TIME_MINUTES

C31_Witness ==
    /\ Blown /\ arg.place = PredictUser
    /\ out.vector.magnitude > 0 /\ arg.directionDeg = 90
    /\ out.prediction.kind = "not heading"

\* the distances of a station list have been computed by both paths
Computed == arg.fn = "distances" /\ out # NoArg

\* the places (shard, position) of the dispatched shards
ShardPlaces == {<<j, p>> \in (1..PoolCap) \X (1..Len(arg.stations)) :
                   j <= Len(out.chunks) /\ p <= Len(out.chunks[j])}

\* the shards hold every located station once, in the order of the list:
\* contiguous, pairwise disjoint and complete
ShardsPartition ==
    /\ \A i \in LocatedIds(arg.stations) :
          Cardinality({x \in ShardPlaces : out.chunks[x[1]][x[2]].id = i}) = 1
    /\ \A x, y \in ShardPlaces :
          (x[1] < y[1] \/ (x[1] = y[1] /\ x[2] < y[2]))
              => out.chunks[x[1]][x[2]].id < out.chunks[y[1]][y[2]].id
    /\ \A j \in 1..Len(out.chunks) : out.chunks[j] # << >>

(* C32: for a list with more than 20 located stations and a pool of w      *)
(* workers, exactly min(w, n) shards are dispatched, and the shards are    *)
(* contiguous, pairwise disjoint and hold every located station once.      *)
C32_ShardCountAndPartition ==
    (Computed /\ LocatedCount(arg.stations) > SingleWorkerMax) =>
        /\ Len(out.chunks) = Min(arg.workers, LocatedCount(arg.stations))
        /\ ShardsPartition

\* the identifiers handed out by this step
DispatchedNow == {id \in MessageIds : eng.messageId <= id /\ id < eng'.messageId}

(* C33: the identifiers handed out grow by one from request to request and *)
(* never start again, so that a request gets an identifier no request had  *)
(* before, terminate and a new initialize included; request k goes to the  *)
(* worker of index k modulo the number of workers the pool holds; a        *)
(* message is answered at most once and its answer is handled at most      *)
(* once; and a request is settled only by the answer that bears its own    *)
(* identifier or by its own timeout, in whatever order answers arrive.     *)
C33_CorrelatedByIdentifier ==
    [][/\ eng'.messageId >= eng.messageId
       /\ \A id \in DispatchedNow :
             /\ req[id] = UnusedRequest
             /\ req'[id].promise = "pending" /\ req'[id].msg = "queued"
             /\ eng.workers > 0
             /\ req'[id].workerIndex = id % eng.workers
       /\ \A id \in MessageIds \ DispatchedNow :
             /\ req'[id].workerIndex = req[id].workerIndex
             /\ req[id].msg # req'[id].msg
                   => \/ req[id].msg = "queued" /\ req'[id].msg \in {"success", "error", "lost"}
                      \/ req[id].msg \in {"success", "error"} /\ req'[id].msg = "handled"
             /\ req[id].promise # req'[id].promise
                   => /\ req[id].promise = "pending"
                      /\ \/ /\ req'[id].promise = "resolved"
                            /\ req[id].msg = "success" /\ req'[id].msg = "handled"
                         \/ /\ req'[id].promise = "rejected"
                            /\ \/ req[id].msg = "error" /\ req'[id].msg = "handled"
                               \/ req[id].timer = "armed" /\ req'[id].timer = "fired"]_vars

C33_Witness ==
    /\ eng.workers = 2 /\ eng.messageId = 2
    /\ req[0].promise = "pending" /\ req[0].workerIndex = 0 /\ req[0].msg = "success"
    /\ req[1].promise = "resolved" /\ req[1].workerIndex = 1 /\ req[1].msg = "handled"

(* C34: in a snapshot built for a reference location, latitude 0 or        *)
(* longitude 0 included, every station has a location.                     *)
C34_LocatedStationsOnly ==
    \A c \in Calls :
        (Produced(c) /\ call[c].userLocation # Undefined) =>
            \A i \in DOMAIN call[c].result.stations :
                Prop(call[c].result.stations[i], "labelLocation") # Undefined

\* slot c was answered from the cache: it returned without any request
FromCache(c) == call[c].pc = "returned" /\ call[c].rainResponse = NoResponse

(* C35: the cache lookup does not look at the caller's reference location  *)
(* or configuration: a non-forced call entering while the entry is valid   *)
(* returns the stored snapshot as it is and leaves the entry as it is,     *)
(* whatever location and radius/max/min it was given.                      *)
C35_LookupIgnoresLocationAndConfig ==
    [][\A c \in Calls :
        (Enters(c) /\ ~call'[c].forceRefresh /\ storage[CACHE_KEY] # NoItem
            /\ now <= storage[CACHE_KEY].expiry)
        => /\ FromCache(c)'
           /\ call'[c].result = storage[CACHE_KEY].data
           /\ storage'[CACHE_KEY] = storage[CACHE_KEY]]_vars

\* a call with a reference point 5 km from S1 and a radius of 1 km was
\* answered with a snapshot that still lists S1 and the unlocated S2
C35_Witness ==
    \E c \in Calls :
        /\ FromCache(c)
        /\ call[c].userLocation = Loc(5) /\ call[c].config.radiusKm = 1
        /\ IdsOf(call[c].result.stations) = {"S1", "S2"}
        /\ \E i \in DOMAIN call[c].result.stations :
               Prop(call[c].result.stations[i], "labelLocation") = Undefined

C37_NoMixtureUnderOverlap ==
    [][/\ \A c \in Calls :
            /\ call'[c] # call[c] => \A d \in Calls \ {c} : call'[d] = call[d]
            /\ Completes(c)
                => /\ call'[c].result =
                          CombinedData(call'[c].rainResponse, call'[c].windSpeed,
                                       call'[c].windDir, call[c].userLocation,
                                       call[c].config, now)
                   /\ call'[c].requests.rainfall = 1
                   /\ call'[c].requests.wind_speed = call'[c].requests.wind_direction
                   /\ call'[c].requests.wind_speed =
                          (IF call'[c].windSpeed = NoResponse THEN 0 ELSE 1)
                   /\ call'[c].wrote
                        => SameSnapshot(storage'[CACHE_KEY].data, call'[c].result)
       /\ storage'[CACHE_KEY] # storage[CACHE_KEY]
            => \/ storage'[CACHE_KEY] = NoItem
               \/ \E c \in Calls :
                     /\ Completes(c) /\ call'[c].wrote
                     /\ SameSnapshot(storage'[CACHE_KEY].data, call'[c].result)]_vars

\* two non-forced calls both found the cache empty, both made their own
\* requests and both wrote; their snapshots differ and the entry is the
\* snapshot of one of them
C37_Witness ==
    /\ \A c \in Calls :
          /\ Produced(c) /\ ~call[c].forceRefresh /\ ~call[c].evicted /\ call[c].wrote
          /\ call[c].requests.rainfall = 1
    /\ call[1].requests.wind_speed = 1 /\ call[2].requests.wind_speed = 0
    /\ ~SameSnapshot(call[1].result, call[2].result)
    /\ storage[CACHE_KEY] # NoItem
    /\ SameSnapshot(storage[CACHE_KEY].data, call[1].result)

\* request id has been settled and is no longer pending
Settled(id) ==
    id \notin eng.pendingRequests /\ req[id].promise \in {"resolved", "rejected"}

(* C38: while terminate is never called, every request that sendToWorker   *)
(* has dispatched is eventually taken out of the pending set and settled,  *)
(* by the worker's reply or by the 10-second timer, and the pending set is *)
(* empty for good once no more requests are dispatched.                    *)
C38_EveryRequestSettles ==
    /\ \A id \in MessageIds : (id \in eng.pendingRequests) ~> Settled(id)
    /\ <>[](eng.pendingRequests = {})
    /\ [][\A id \in MessageIds :
            (req[id].promise = "pending" /\ req'[id].promise # "pending")
            => /\ id \in eng.pendingRequests /\ id \notin eng'.pendingRequests
               /\ \/ /\ req[id].msg = "success" /\ req'[id].msg = "handled"
                     /\ req'[id].promise = "resolved"
                  \/ /\ req[id].msg = "error" /\ req'[id].msg = "handled"
                     /\ req'[id].promise = "rejected"
                  \/ /\ req[id].timer = "armed" /\ req'[id].timer = "fired"
                     /\ req'[id].promise = "rejected"]_vars

\* the worker never answered a request and its timer rejected it
C38_Witness ==
    \E id \in MessageIds :
        /\ Settled(id) /\ req[id].promise = "rejected"
        /\ req[id].msg = "queued" /\ req[id].timer = "fired"
        /\ eng.pendingRequests = {}

\* this step hands to onmessage the reply to a request that is no longer
\* pending
LateReply(id) ==
    /\ req[id].msg \in {"success", "error"} /\ req'[id].msg = "handled"
    /\ id \notin eng.pendingRequests

\* this step runs the timer callback of a request that is no longer pending
LateTimeout(id) ==
    /\ req[id].timer = "armed" /\ req'[id].timer = "fired"
    /\ id \notin eng.pendingRequests

(* C39: a request that has been resolved or rejected stays as it was       *)
(* settled; a reply or a timer callback that comes for a request no longer *)
(* pending changes neither that request's outcome, nor any other request,  *)
(* nor the pending set, nor any invocation; and the result of an           *)
(* invocation that has gone on (to the workers' results or to the          *)
(* synchronous fallback) is not touched until its caller takes it.         *)
C39_SettledAtMostOnce ==
    [][/\ \A id \in MessageIds :
            /\ req[id].promise \in {"resolved", "rejected"}
                 => req'[id].promise = req[id].promise
            /\ (LateReply(id) \/ LateTimeout(id))
                 => /\ req'[id].promise = req[id].promise
                    /\ \A o \in MessageIds \ {id} : req'[o] = req[o]
                    /\ eng' = eng
                    /\ calc' = calc
       /\ \A k \in CalcIds :
            calc[k].state = "done" => calc'[k] \in {calc[k], IdleCalc}]_vars

\* of the two requests of one invocation the first was rejected and its
\* reply has been handled, the second was resolved and its timer has fired
\* since; the invocation holds the result of the synchronous fallback
C39_Witness ==
    /\ req[0].promise = "rejected" /\ req[0].timer = "fired" /\ req[0].msg = "handled"
    /\ req[1].promise = "resolved" /\ req[1].timer = "fired" /\ req[1].msg = "handled"
    /\ \E k \in CalcIds :
          /\ calc[k].state = "done" /\ calc[k].via = "sync" /\ calc[k].reqs = {0, 1}
          /\ calc[k].result = SyncResult(calc[k].n)

=============================================================================
